---- MODULE Spec2Model ----
(***************************************************************************)
(* A model of the rustdi client core: the Noise handshake engine           *)
(* (src/src/handshake_new.rs), the session key store (src/src/session.rs), *)
(* the binary node codec (src/src/node_protocol.rs) and the AppState       *)
(* manager (src/src/appstate.rs).                                          *)
(*                                                                         *)
(* Strings are modelled as their UTF-8 byte sequences, byte vectors as     *)
(* sequences of 0..255.  Every operation is one action that performs the   *)
(* whole call; the record hs_last / co_last / as_last keeps what the last  *)
(* call was given and what it returned.                                    *)
(***************************************************************************)
EXTENDS Integers, Sequences, FiniteSets, TLC

VARIABLES
    \* NoiseHandler (handshake_new.rs:32-38)
    handshake_state, noise_key, ephemeral_key_pair, static_public_key,
    \* Session key store (session.rs:12-13)
    enc_key, mac_key,
    \* the last handshake call: operation, state before, argument, result
    hs_last,
    \* NodeEncoder.data and the result of the last encoder call
    enc_data, enc_ret,
    \* NodeDecoder.data, NodeDecoder.index and the result of the last read_node
    dec_data, dec_index, dec_ret,
    \* the last codec call: operation and argument
    co_last,
    \* AppStateManager (appstate.rs:76-82)
    state, keys, version, current_state, pending_patches,
    \* AppStateSyncManager.pending_requests (appstate_sync.rs:122)
    pending_requests,
    \* the last AppStateManager / AppStateSyncManager call
    as_last,
    \* apply_patches followed statement by statement: where the call stands, the
    \* drained patches not merged yet, the entries of the first of them already
    \* merged; and what the last get_entry / get_current_version of a reader saw
    ap_pc, ap_todo, ap_merged, rd_obs,
    \* Session (session.rs:8-22)
    client_token, server_token, wid, push_name, is_logged_in, registration_id,
    identity_key_pair, signed_pre_key, one_time_keys, next_pre_key_id,
    \* the last Session call and its result, whether update_encryption_keys has
    \* run, and the ids remove_used_key has taken out of one_time_keys
    se_last,
    \* WhatsAppClient (lib.rs:197-205): state, sender, the frames handed to the
    \* socket, the events in the channel, the position of the connect thread
    connection_state, sender, socket_out, event_queue, connect_pc,
    \* whether WhatsAppClient.session holds a Session (lib.rs:200)
    session_is_some,
    \* for each event waiting in the channel, whether the connection state
    \* has been written since the event was sent
    ev_moved,
    \* the last client call
    cl_last

hs_vars == <<handshake_state, noise_key, ephemeral_key_pair, static_public_key,
             enc_key, mac_key, hs_last>>

co_vars == <<enc_data, enc_ret, dec_data, dec_index, dec_ret, co_last>>

as_vars == <<state, keys, version, current_state, pending_patches, pending_requests,
             as_last, ap_pc, ap_todo, ap_merged, rd_obs>>

\* what the whole-call actions of AppStateManager leave alone
as_aux == <<pending_requests, ap_pc, ap_todo, ap_merged, rd_obs>>

ap_vars == <<ap_pc, ap_todo, ap_merged, rd_obs>>

se_vars == <<client_token, server_token, wid, push_name, is_logged_in, registration_id,
             identity_key_pair, signed_pre_key, one_time_keys, next_pre_key_id, se_last>>

cl_vars == <<connection_state, sender, socket_out, event_queue, connect_pc,
             session_is_some, ev_moved, cl_last>>

\* the handshake engine's own fields
noise_vars == <<handshake_state, noise_key, ephemeral_key_pair, static_public_key, hs_last>>

vars == <<handshake_state, noise_key, ephemeral_key_pair, static_public_key,
          enc_key, mac_key, hs_last,
          enc_data, enc_ret, dec_data, dec_index, dec_ret, co_last,
          state, keys, version, current_state, pending_patches, pending_requests,
          as_last, ap_pc, ap_todo, ap_merged, rd_obs,
          client_token, server_token, wid, push_name, is_logged_in, registration_id,
          identity_key_pair, signed_pre_key, one_time_keys, next_pre_key_id, se_last,
          connection_state, sender, socket_out, event_queue, connect_pc,
          session_is_some, ev_moved, cl_last>>

----------------------------------------------------------------------------
(* Bytes and key material *)

U8 == 256

\* number of distinct key seeds the inputs are drawn from
MaxKeySeed == 2

\* length of an X25519 key and of each negotiated key
KeyLen == 32

\* a byte vector of the given length, determined by its seed; seed 0 is all zero
KeyBytes(seed, len) == [i \in 1..len |-> (seed * (i + 16)) % U8]

ZeroKey == [i \in 1..KeyLen |-> 0]

\* lengths of the shared_keys argument the callers are modelled to pass
SharedKeyLens == {0, 32, 63, 64, 65, 112}

SharedKeysInputs == {KeyBytes(s, l) : s \in 1..MaxKeySeed, l \in SharedKeyLens}

\* ServerHello.ephemeral: too short, exact, longer; seed 0 is the all-zero
\* (low order) point, for which the X25519 agreement fails
ServerHelloInputs ==
    {[ephemeral |-> KeyBytes(s, l),
      static_key_encrypted |-> KeyBytes(1, KeyLen),
      certificate_encrypted |-> <<>>] : s \in 0..MaxKeySeed, l \in {31, 32, 33}}

\* compute_public_key: the public half of a private key (abstract, injective in the seed)
compute_public_key(priv) == KeyBytes(priv, KeyLen)

\* agreement::agree_ephemeral for X25519: fails on a low-order peer point
agree_ephemeral(priv, peer) ==
    IF peer = ZeroKey THEN [ok |-> FALSE, secret |-> <<>>]
    ELSE [ok |-> TRUE, secret |-> [i \in 1..KeyLen |-> (peer[i] + priv) % U8]]

HandshakeStates ==
    {"Idle", "ClientHelloSent", "ServerHelloReceived", "ClientFinishedSent",
     "HandshakeComplete"}

----------------------------------------------------------------------------
(* NoiseHandler *)

InitHandshake ==
    /\ handshake_state = "Idle"
    /\ noise_key = ZeroKey
    /\ ephemeral_key_pair \in 1..MaxKeySeed
    /\ static_public_key = compute_public_key(MaxKeySeed + 1)
    /\ enc_key = ZeroKey
    /\ mac_key = ZeroKey
    /\ hs_last = [op |-> "new", pre |-> "Idle", arg |-> <<>>, ret |-> "Ok", out |-> <<>>]

\* mutant: the ClientHello carries the static public key
start_handshake_static_key ==
    /\ handshake_state' = "ClientHelloSent"
    /\ hs_last' = [op |-> "start_handshake", pre |-> handshake_state, arg |-> <<>>,
                   ret |-> "Ok",
                   out |-> <<1>> \o static_public_key]
    /\ UNCHANGED <<noise_key, ephemeral_key_pair, static_public_key, enc_key, mac_key>>

\* start_handshake: no state check; the state is set first
start_handshake ==
    /\ handshake_state' = "ClientHelloSent"
    /\ hs_last' = [op |-> "start_handshake", pre |-> handshake_state, arg |-> <<>>,
                   ret |-> "Ok",
                   out |-> <<1>> \o compute_public_key(ephemeral_key_pair)]
    /\ UNCHANGED <<noise_key, ephemeral_key_pair, static_public_key, enc_key, mac_key>>

\* the placeholders of process_server_hello
decrypt_noise_certificate(encrypted_cert, shared_secret) == encrypted_cert
decrypt_static_key(encrypted_static, shared_secret) == encrypted_static
build_client_payload == <<>>
encrypt_payload(payload, combined_shared) == payload

process_server_hello_unguarded(server_hello) ==
    /\ handshake_state' = "ServerHelloReceived"
    /\ IF Len(server_hello.ephemeral) < KeyLen
       THEN \* &server_hello.ephemeral[..32] panics
            hs_last' = [op |-> "process_server_hello", pre |-> handshake_state,
                        arg |-> server_hello.ephemeral, ret |-> "Panic", out |-> <<>>]
       ELSE LET server_public_key == SubSeq(server_hello.ephemeral, 1, KeyLen)
                agreed == agree_ephemeral(ephemeral_key_pair, server_public_key)
            IN  IF ~agreed.ok
                THEN hs_last' = [op |-> "process_server_hello", pre |-> handshake_state,
                                 arg |-> server_hello.ephemeral, ret |-> "Err",
                                 out |-> <<>>]
                ELSE hs_last' = [op |-> "process_server_hello", pre |-> handshake_state,
                                 arg |-> server_hello.ephemeral, ret |-> "Ok",
                                 out |-> <<2>> \o static_public_key
                                         \o encrypt_payload(build_client_payload,
                                                            agreed.secret)]
    /\ UNCHANGED <<noise_key, ephemeral_key_pair, static_public_key, enc_key, mac_key>>

process_server_hello_rejected(server_hello) ==
    /\ hs_last' = [op |-> "process_server_hello", pre |-> handshake_state,
                   arg |-> server_hello.ephemeral, ret |-> "Err", out |-> <<>>]
    /\ UNCHANGED <<handshake_state, noise_key, ephemeral_key_pair, static_public_key,
                   enc_key, mac_key>>

\* mutant: the state check of process_server_hello is missing
process_server_hello_nocheck(server_hello) ==
    process_server_hello_unguarded(server_hello)

process_server_hello(server_hello) ==
    IF handshake_state # "ClientHelloSent"
    THEN process_server_hello_rejected(server_hello)
    ELSE process_server_hello_unguarded(server_hello)

finalize_handshake(shared_keys) ==
    IF handshake_state # "ServerHelloReceived"
    THEN /\ hs_last' = [op |-> "finalize_handshake", pre |-> handshake_state,
                        arg |-> shared_keys, ret |-> "Err", out |-> <<>>]
         /\ UNCHANGED <<handshake_state, noise_key, ephemeral_key_pair,
                        static_public_key, enc_key, mac_key>>
    ELSE /\ noise_key' = IF Len(shared_keys) >= 2 * KeyLen
                         THEN SubSeq(shared_keys, 1, KeyLen)
                         ELSE noise_key
         /\ handshake_state' = "HandshakeComplete"
         /\ hs_last' = [op |-> "finalize_handshake", pre |-> handshake_state,
                        arg |-> shared_keys, ret |-> "Ok", out |-> <<>>]
         /\ UNCHANGED <<ephemeral_key_pair, static_public_key, enc_key, mac_key>>

StartHandshake == start_handshake
ProcessServerHello == \E sh \in ServerHelloInputs : process_server_hello(sh)
FinalizeHandshake == \E k \in SharedKeysInputs : finalize_handshake(k)

----------------------------------------------------------------------------
(* Node codec: tag bytes and the token table (node_protocol.rs:4-49) *)

LIST_EMPTY == 0
STREAM_END == 2
DICTIONARY_0 == 236
DICTIONARY_1 == 237
DICTIONARY_2 == 238
DICTIONARY_3 == 239
LIST_8 == 248
LIST_16 == 249
JID_PAIR == 250
HEX_8 == 251
BINARY_8 == 252
BINARY_20 == 253
BINARY_32 == 254
NIBBLE_8 == 255

\* pub const SINGLE_BYTE_MAX: u8 = 256: the literal does not fit the declared
\* type; at the width of u8 the constant is 256 mod 2^8
SINGLE_BYTE_MAX == 256 % U8
PACKED_MAX == 254

U16 == 65536

SINGLE_BYTE_TOKENS ==
    <<
       <<>>,  \* 0 ""
       <<>>,  \* 1 ""
       <<>>,  \* 2 ""
       <<50, 48, 48>>,  \* 3 "200"
       <<52, 48, 48>>,  \* 4 "400"
       <<52, 48, 52>>,  \* 5 "404"
       <<53, 48, 48>>,  \* 6 "500"
       <<53, 48, 49>>,  \* 7 "501"
       <<53, 48, 50>>,  \* 8 "502"
       <<97, 99, 116, 105, 111, 110>>,  \* 9 "action"
       <<97, 100, 100>>,  \* 10 "add"
       <<97, 102, 116, 101, 114>>,  \* 11 "after"
       <<97, 114, 99, 104, 105, 118, 101>>,  \* 12 "archive"
       <<97, 117, 116, 104, 111, 114>>,  \* 13 "author"
       <<97, 118, 97, 105, 108, 97, 98, 108, 101>>,  \* 14 "available"
       <<98, 97, 116, 116, 101, 114, 121>>,  \* 15 "battery"
       <<98, 101, 102, 111, 114, 101>>,  \* 16 "before"
       <<98, 111, 100, 121>>,  \* 17 "body"
       <<98, 114, 111, 97, 100, 99, 97, 115, 116>>,  \* 18 "broadcast"
       <<99, 104, 97, 116>>,  \* 19 "chat"
       <<99, 108, 101, 97, 114>>,  \* 20 "clear"
       <<99, 111, 100, 101>>,  \* 21 "code"
       <<99, 111, 109, 112, 111, 115, 105, 110, 103>>,  \* 22 "composing"
       <<99, 111, 110, 116, 97, 99, 116, 115>>,  \* 23 "contacts"
       <<99, 111, 117, 110, 116>>,  \* 24 "count"
       <<99, 114, 101, 97, 116, 101>>,  \* 25 "create"
       <<100, 101, 98, 117, 103>>,  \* 26 "debug"
       <<100, 101, 108, 101, 116, 101>>,  \* 27 "delete"
       <<100, 101, 109, 111, 116, 101>>,  \* 28 "demote"
       <<100, 117, 112, 108, 105, 99, 97, 116, 101>>,  \* 29 "duplicate"
       <<101, 110, 99, 111, 100, 105, 110, 103>>,  \* 30 "encoding"
       <<101, 114, 114, 111, 114>>,  \* 31 "error"
       <<102, 97, 108, 115, 101>>,  \* 32 "false"
       <<102, 105, 108, 101, 104, 97, 115, 104>>,  \* 33 "filehash"
       <<102, 114, 111, 109>>,  \* 34 "from"
       <<103, 46, 117, 115>>,  \* 35 "g.us"
       <<103, 114, 111, 117, 112>>,  \* 36 "group"
       <<103, 114, 111, 117, 112, 115, 95, 118, 50>>,  \* 37 "groups_v2"
       <<104, 101, 105, 103, 104, 116>>,  \* 38 "height"
       <<105, 100>>,  \* 39 "id"
       <<105, 109, 97, 103, 101>>,  \* 40 "image"
       <<105, 110>>,  \* 41 "in"
       <<105, 110, 100, 101, 120>>,  \* 42 "index"
       <<105, 110, 118, 105, 115>>,  \* 43 "invis"
       <<105, 116, 101, 109>>,  \* 44 "item"
       <<106, 105, 100>>,  \* 45 "jid"
       <<107, 105, 110, 100>>,  \* 46 "kind"
       <<108, 97, 115, 116>>,  \* 47 "last"
       <<108, 101, 97, 118, 101>>,  \* 48 "leave"
       <<108, 105, 118, 101>>,  \* 49 "live"
       <<108, 111, 103>>,  \* 50 "log"
       <<109, 101, 100, 105, 97>>,  \* 51 "media"
       <<109, 101, 115, 115, 97, 103, 101>>,  \* 52 "message"
       <<109, 105, 109, 101, 116, 121, 112, 101>>,  \* 53 "mimetype"
       <<109, 105, 115, 115, 105, 110, 103>>,  \* 54 "missing"
       <<109, 111, 100, 105, 102, 121>>,  \* 55 "modify"
       <<110, 97, 109, 101>>,  \* 56 "name"
       <<110, 111, 116, 105, 102, 105, 99, 97, 116, 105, 111, 110>>,  \* 57 "notification"
       <<110, 111, 116, 105, 102, 121>>,  \* 58 "notify"
       <<111, 117, 116>>,  \* 59 "out"
       <<111, 119, 110, 101, 114>>,  \* 60 "owner"
       <<112, 97, 114, 116, 105, 99, 105, 112, 97, 110, 116>>,  \* 61 "participant"
       <<112, 97, 117, 115, 101, 100>>,  \* 62 "paused"
       <<112, 105, 99, 116, 117, 114, 101>>,  \* 63 "picture"
       <<112, 108, 97, 121, 101, 100>>,  \* 64 "played"
       <<112, 114, 101, 115, 101, 110, 99, 101>>,  \* 65 "presence"
       <<112, 114, 101, 118, 105, 101, 119>>,  \* 66 "preview"
       <<112, 114, 111, 109, 111, 116, 101>>,  \* 67 "promote"
       <<113, 117, 101, 114, 121>>,  \* 68 "query"
       <<114, 97, 119>>,  \* 69 "raw"
       <<114, 101, 97, 100>>,  \* 70 "read"
       <<114, 101, 99, 101, 105, 112, 116>>,  \* 71 "receipt"
       <<114, 101, 99, 101, 105, 118, 101, 100>>,  \* 72 "received"
       <<114, 101, 99, 105, 112, 105, 101, 110, 116>>,  \* 73 "recipient"
       <<114, 101, 99, 111, 114, 100, 105, 110, 103>>,  \* 74 "recording"
       <<114, 101, 108, 97, 121>>,  \* 75 "relay"
       <<114, 101, 109, 111, 118, 101>>,  \* 76 "remove"
       <<114, 101, 115, 112, 111, 110, 115, 101>>,  \* 77 "response"
       <<114, 101, 115, 117, 109, 101>>,  \* 78 "resume"
       <<114, 101, 116, 114, 121>>,  \* 79 "retry"
       <<115, 46, 119, 104, 97, 116, 115, 97, 112, 112, 46, 110, 101, 116>>,  \* 80 "s.whatsapp.net"
       <<115, 101, 99, 111, 110, 100, 115>>,  \* 81 "seconds"
       <<115, 101, 116>>,  \* 82 "set"
       <<115, 105, 122, 101>>,  \* 83 "size"
       <<115, 116, 97, 116, 117, 115>>,  \* 84 "status"
       <<115, 117, 98, 106, 101, 99, 116>>,  \* 85 "subject"
       <<115, 117, 98, 115, 99, 114, 105, 98, 101>>,  \* 86 "subscribe"
       <<116>>,  \* 87 "t"
       <<116, 101, 120, 116>>,  \* 88 "text"
       <<116, 111>>,  \* 89 "to"
       <<116, 114, 117, 101>>,  \* 90 "true"
       <<116, 121, 112, 101>>,  \* 91 "type"
       <<117, 110, 97, 114, 99, 104, 105, 118, 101>>,  \* 92 "unarchive"
       <<117, 110, 97, 118, 97, 105, 108, 97, 98, 108, 101>>,  \* 93 "unavailable"
       <<117, 114, 108>>,  \* 94 "url"
       <<117, 115, 101, 114>>,  \* 95 "user"
       <<118, 97, 108, 117, 101>>,  \* 96 "value"
       <<119, 101, 98>>,  \* 97 "web"
       <<119, 105, 100, 116, 104>>,  \* 98 "width"
       <<109, 117, 116, 101>>,  \* 99 "mute"
       <<114, 101, 97, 100, 95, 111, 110, 108, 121>>,  \* 100 "read_only"
       <<97, 100, 109, 105, 110>>,  \* 101 "admin"
       <<99, 114, 101, 97, 116, 111, 114>>,  \* 102 "creator"
       <<115, 104, 111, 114, 116>>,  \* 103 "short"
       <<117, 112, 100, 97, 116, 101>>,  \* 104 "update"
       <<112, 111, 119, 101, 114, 115, 97, 118, 101>>,  \* 105 "powersave"
       <<99, 104, 101, 99, 107, 115, 117, 109>>,  \* 106 "checksum"
       <<101, 112, 111, 99, 104>>,  \* 107 "epoch"
       <<98, 108, 111, 99, 107>>,  \* 108 "block"
       <<112, 114, 101, 118, 105, 111, 117, 115>>,  \* 109 "previous"
       <<52, 48, 57>>,  \* 110 "409"
       <<114, 101, 112, 108, 97, 99, 101, 100>>,  \* 111 "replaced"
       <<114, 101, 97, 115, 111, 110>>,  \* 112 "reason"
       <<115, 112, 97, 109>>,  \* 113 "spam"
       <<109, 111, 100, 105, 102, 121, 95, 116, 97, 103>>,  \* 114 "modify_tag"
       <<109, 101, 115, 115, 97, 103, 101, 95, 105, 110, 102, 111>>,  \* 115 "message_info"
       <<100, 101, 108, 105, 118, 101, 114, 121>>,  \* 116 "delivery"
       <<101, 109, 111, 106, 105>>,  \* 117 "emoji"
       <<116, 105, 116, 108, 101>>,  \* 118 "title"
       <<100, 101, 115, 99, 114, 105, 112, 116, 105, 111, 110>>,  \* 119 "description"
       <<99, 97, 110, 111, 110, 105, 99, 97, 108, 45, 117, 114, 108>>,  \* 120 "canonical-url"
       <<109, 97, 116, 99, 104, 101, 100, 45, 116, 101, 120, 116>>,  \* 121 "matched-text"
       <<115, 116, 97, 114>>,  \* 122 "star"
       <<117, 110, 115, 116, 97, 114>>,  \* 123 "unstar"
       <<109, 101, 100, 105, 97, 95, 107, 101, 121>>,  \* 124 "media_key"
       <<102, 105, 108, 101, 110, 97, 109, 101>>,  \* 125 "filename"
       <<105, 100, 101, 110, 116, 105, 116, 121>>,  \* 126 "identity"
       <<117, 110, 114, 101, 97, 100>>,  \* 127 "unread"
       <<112, 97, 103, 101>>,  \* 128 "page"
       <<112, 97, 103, 101, 95, 99, 111, 117, 110, 116>>,  \* 129 "page_count"
       <<115, 101, 97, 114, 99, 104>>,  \* 130 "search"
       <<109, 101, 100, 105, 97, 95, 109, 101, 115, 115, 97, 103, 101>>,  \* 131 "media_message"
       <<115, 101, 99, 117, 114, 105, 116, 121>>,  \* 132 "security"
       <<99, 97, 108, 108, 95, 108, 111, 103>>,  \* 133 "call_log"
       <<112, 114, 111, 102, 105, 108, 101>>,  \* 134 "profile"
       <<99, 105, 112, 104, 101, 114, 116, 101, 120, 116>>,  \* 135 "ciphertext"
       <<105, 110, 118, 105, 116, 101>>,  \* 136 "invite"
       <<103, 105, 102>>,  \* 137 "gif"
       <<118, 99, 97, 114, 100>>,  \* 138 "vcard"
       <<102, 114, 101, 113, 117, 101, 110, 116>>,  \* 139 "frequent"
       <<112, 114, 105, 118, 97, 99, 121>>,  \* 140 "privacy"
       <<98, 108, 97, 99, 107, 108, 105, 115, 116>>,  \* 141 "blacklist"
       <<119, 104, 105, 116, 101, 108, 105, 115, 116>>,  \* 142 "whitelist"
       <<118, 101, 114, 105, 102, 121>>,  \* 143 "verify"
       <<108, 111, 99, 97, 116, 105, 111, 110>>,  \* 144 "location"
       <<100, 111, 99, 117, 109, 101, 110, 116>>,  \* 145 "document"
       <<101, 108, 97, 112, 115, 101, 100>>,  \* 146 "elapsed"
       <<114, 101, 118, 111, 107, 101, 95, 105, 110, 118, 105, 116, 101>>,  \* 147 "revoke_invite"
       <<101, 120, 112, 105, 114, 97, 116, 105, 111, 110>>,  \* 148 "expiration"
       <<117, 110, 115, 117, 98, 115, 99, 114, 105, 98, 101>>,  \* 149 "unsubscribe"
       <<100, 105, 115, 97, 98, 108, 101>>,  \* 150 "disable"
       <<118, 110, 97, 109, 101>>,  \* 151 "vname"
       <<111, 108, 100, 95, 106, 105, 100>>,  \* 152 "old_jid"
       <<110, 101, 119, 95, 106, 105, 100>>,  \* 153 "new_jid"
       <<97, 110, 110, 111, 117, 110, 99, 101, 109, 101, 110, 116>>,  \* 154 "announcement"
       <<108, 111, 99, 107, 101, 100>>,  \* 155 "locked"
       <<112, 114, 111, 112>>,  \* 156 "prop"
       <<108, 97, 98, 101, 108>>,  \* 157 "label"
       <<99, 111, 108, 111, 114>>,  \* 158 "color"
       <<99, 97, 108, 108>>,  \* 159 "call"
       <<111, 102, 102, 101, 114>>,  \* 160 "offer"
       <<99, 97, 108, 108, 45, 105, 100>>,  \* 161 "call-id"
       <<113, 117, 105, 99, 107, 95, 114, 101, 112, 108, 121>>,  \* 162 "quick_reply"
       <<115, 116, 105, 99, 107, 101, 114>>,  \* 163 "sticker"
       <<112, 97, 121, 95, 116>>,  \* 164 "pay_t"
       <<97, 99, 99, 101, 112, 116>>,  \* 165 "accept"
       <<114, 101, 106, 101, 99, 116>>,  \* 166 "reject"
       <<115, 116, 105, 99, 107, 101, 114, 95, 112, 97, 99, 107>>,  \* 167 "sticker_pack"
       <<105, 110, 118, 97, 108, 105, 100>>,  \* 168 "invalid"
       <<99, 97, 110, 99, 101, 108, 101, 100>>,  \* 169 "canceled"
       <<109, 105, 115, 115, 101, 100>>,  \* 170 "missed"
       <<99, 111, 110, 110, 101, 99, 116, 101, 100>>,  \* 171 "connected"
       <<114, 101, 115, 117, 108, 116>>,  \* 172 "result"
       <<97, 117, 100, 105, 111>>,  \* 173 "audio"
       <<118, 105, 100, 101, 111>>,  \* 174 "video"
       <<114, 101, 99, 101, 110, 116>>  \* 175 "recent"
    >>

\* SINGLE_BYTE_TOKENS.iter().position(|&t| t == s): the first index, 0-based; -1 for None
TokenPosition(s) ==
    IF \E i \in 1..Len(SINGLE_BYTE_TOKENS) : SINGLE_BYTE_TOKENS[i] = s
    THEN (CHOOSE i \in 1..Len(SINGLE_BYTE_TOKENS) :
             /\ SINGLE_BYTE_TOKENS[i] = s
             /\ \A j \in 1..(i - 1) : SINGLE_BYTE_TOKENS[j] # s) - 1
    ELSE -1

\* the strings the model's nodes are built from, as UTF-8 bytes
S_iq == <<105, 113>>  \* "iq"
S_type == <<116, 121, 112, 101>>  \* "type"
S_get == <<103, 101, 116>>  \* "get"
S_id == <<105, 100>>  \* "id"
S_1 == <<49>>  \* "1"
S_message == <<109, 101, 115, 115, 97, 103, 101>>  \* "message"
S_foo == <<102, 111, 111>>  \* "foo"
S_bar == <<98, 97, 114>>  \* "bar"
S_s_whatsapp_net == <<115, 46, 119, 104, 97, 116, 115, 97, 112, 112, 46, 110, 101, 116>>  \* "s.whatsapp.net"
S_c_us == <<99, 46, 117, 115>>  \* "c.us"
S_1234_at_s_whatsapp_net == <<49, 50, 51, 52, 64, 115, 46, 119, 104, 97, 116, 115, 97, 112, 112, 46, 110, 101, 116>>  \* "1234@s.whatsapp.net"
S_1234_at_c_us == <<49, 50, 51, 52, 64, 99, 46, 117, 115>>  \* "1234@c.us"
S_abc_at_g_us == <<97, 98, 99, 64, 103, 46, 117, 115>>  \* "abc@g.us"
S_g_us == <<103, 46, 117, 115>>  \* "g.us"
S_abc == <<97, 98, 99>>  \* "abc"
S_1234 == <<49, 50, 51, 52>>  \* "1234"
S_at_g_us == <<64, 103, 46, 117, 115>>  \* "@g.us"
S_lid == <<108, 105, 100>>  \* "lid"
S_5_at_lid == <<53, 64, 108, 105, 100>>  \* "5@lid"
S_empty == <<>>  \* ""
S_at_lid == <<64, 108, 105, 100>>  \* "@lid"

AT_SIGN == 64

\* s.find('@'): the 0-based position of the first '@'; -1 for None
FindAt(s) ==
    IF \E i \in 1..Len(s) : s[i] = AT_SIGN
    THEN (CHOOSE i \in 1..Len(s) : s[i] = AT_SIGN /\ \A j \in 1..(i - 1) : s[j] # AT_SIGN) - 1
    ELSE -1

\* a usize too large for one machine integer of the checker, held as two
\* 16-bit limbs: the value is hi * 2^16 + lo
Wide(n) == [hi |-> n \div U16, lo |-> n % U16]

----------------------------------------------------------------------------
(* NodeEncoder (node_protocol.rs:74-219).  An encoder operation maps the    *)
(* buffer to [ok, data]: on Err the bytes already pushed stay in data.      *)

EncOk(d) == [ok |-> TRUE, data |-> d]
EncErr(d) == [ok |-> FALSE, data |-> d]

\* `r?` followed by the rest of the function: an Err of r is returned as it
\* is, otherwise the rest runs on the buffer r left (r is evaluated once)
EncThen(r, Rest(_)) ==
    CHOOSE y \in {IF ~x.ok THEN x ELSE Rest(x.data) : x \in {r}} : TRUE

\* mutant: the boundary between the one-byte and the two-byte count is off by one
write_list_start_off_by_one(data, size) ==
    IF size.hi = 0 /\ size.lo = 0 THEN EncOk(data \o <<LIST_EMPTY>>)
    ELSE IF size.hi = 0 /\ size.lo <= 256 THEN EncOk(data \o <<LIST_8, size.lo % U8>>)
    ELSE EncOk(data \o <<LIST_16, size.lo \div U8, size.lo % U8>>)

\* write_list_start(size: usize); (size as u16) keeps the low limb
write_list_start(data, size) ==
    IF size.hi = 0 /\ size.lo = 0 THEN EncOk(data \o <<LIST_EMPTY>>)
    ELSE IF size.hi = 0 /\ size.lo < 256 THEN EncOk(data \o <<LIST_8, size.lo % U8>>)
    ELSE EncOk(data \o <<LIST_16, size.lo \div U8, size.lo % U8>>)

write_token(data, token) ==
    IF token < SINGLE_BYTE_MAX THEN EncOk(data \o <<token>>) ELSE EncErr(data)

\* write_int20(value: u32)
write_int20(data, value) ==
    EncOk(data \o <<value.hi % 16, value.lo \div U8, value.lo % U8>>)

\* write_byte_length(length: usize); 4294967296 = 2^16 * 2^16, 1 << 20 = 16 * 2^16
write_byte_length(data, length) ==
    IF length.hi >= U16 THEN EncErr(data)
    ELSE IF length.hi >= 16
    THEN EncOk(data \o <<BINARY_32, length.hi \div U8, length.hi % U8,
                         length.lo \div U8, length.lo % U8>>)
    ELSE IF length.hi > 0 \/ length.lo >= 256
    THEN write_int20(data \o <<BINARY_20>>, length)
    ELSE EncOk(data \o <<BINARY_8, length.lo % U8>>)

write_string_raw(data, s) ==
    EncThen(write_byte_length(data, Wide(Len(s))), LAMBDA d : EncOk(d \o s))

RECURSIVE write_string(_, _, _)
RECURSIVE write_jid(_, _, _)

write_string(data, s, i) ==
    IF ~i /\ s = S_s_whatsapp_net
    THEN write_token(data, TokenPosition(S_s_whatsapp_net) % U8)
    ELSE IF TokenPosition(s) >= 0
    THEN LET token_index == TokenPosition(s)
         IN  IF token_index < SINGLE_BYTE_MAX
             THEN write_token(data, token_index % U8)
             ELSE LET overflow == token_index - SINGLE_BYTE_MAX
                      dictionary_index == (overflow \div 256) % U8
                  IN  IF dictionary_index < 4
                      THEN EncThen(write_token(data, DICTIONARY_0 + dictionary_index),
                                   LAMBDA d : write_token(d, overflow % 256))
                      ELSE EncErr(data)
    ELSE IF FindAt(s) >= 0
    THEN LET pos == FindAt(s)
         IN  write_jid(data, SubSeq(s, 1, pos), SubSeq(s, pos + 2, Len(s)))
    ELSE write_string_raw(data, s)

write_jid(data, left, right) ==
    EncThen(IF left = <<>> THEN write_token(data \o <<JID_PAIR>>, LIST_EMPTY)
            ELSE write_string(data \o <<JID_PAIR>>, left, FALSE),
            LAMBDA d : write_string(d, right, FALSE))

\* the order in which `for (key, value) in &node.attrs` visits a HashMap is
\* unspecified: an order is any sequence that lists every key once
KeyOrders(attrs) ==
    {o \in [1..Cardinality(DOMAIN attrs) -> DOMAIN attrs] :
        \A a, b \in DOMAIN o : a # b => o[a] # o[b]}

AnyKeyOrder(attrs) == CHOOSE o \in KeyOrders(attrs) : TRUE

RECURSIVE write_attrs(_, _, _, _)
write_attrs(data, attrs, order, k) ==
    IF k > Len(order) THEN EncOk(data)
    ELSE EncThen(write_string(data, order[k], FALSE),
                 LAMBDA d1 : EncThen(write_string(d1, attrs[order[k]], FALSE),
                                     LAMBDA d2 : write_attrs(d2, attrs, order, k + 1)))

\* mutant: the content is not counted among the children
total_children_without_content(node) == 1 + 2 * Cardinality(DOMAIN node.attrs)

total_children(node) ==
    1 + 2 * Cardinality(DOMAIN node.attrs) + (IF node.content.kind # "None" THEN 1 ELSE 0)

RECURSIVE write_node_in(_, _, _)
RECURSIVE write_content(_, _)
RECURSIVE write_nodes(_, _, _)

\* write_node with the iteration order of this node's attributes given
write_node_in(data, node, order) ==
    EncThen(write_list_start(data, Wide(total_children(node))),
      LAMBDA d0 : EncThen(write_string(d0, node.tag, FALSE),
        LAMBDA d1 : EncThen(write_attrs(d1, node.attrs, order, 1),
          LAMBDA d2 : IF node.content.kind # "None"
                      THEN write_content(d2, node.content)
                      ELSE EncOk(d2))))

write_node(data, node) == write_node_in(data, node, AnyKeyOrder(node.attrs))

\* the loop of write_content over a list of nodes
write_nodes(data, nodes, k) ==
    IF k > Len(nodes) THEN EncOk(data)
    ELSE EncThen(write_node(data, nodes[k]), LAMBDA d : write_nodes(d, nodes, k + 1))

write_content(data, content) ==
    CASE content.kind = "Text" -> write_string(data, content.v, TRUE)
      [] content.kind = "Binary" ->
            EncThen(write_byte_length(data, Wide(Len(content.v))),
                    LAMBDA d : EncOk(d \o content.v))
      [] content.kind = "List" ->
            EncThen(write_list_start(data, Wide(Len(content.v))),
                    LAMBDA d : write_nodes(d, content.v, 1))

----------------------------------------------------------------------------
(* NodeDecoder (node_protocol.rs:221-480).  A decoder operation maps        *)
(* (data, index) to [ok, val, index]: on Err the index keeps what was       *)
(* consumed before the failure.  index counts bytes consumed (0-based).     *)

DecOk(v, idx) == [ok |-> TRUE, val |-> v, index |-> idx]
DecErr(idx) == [ok |-> FALSE, val |-> <<>>, index |-> idx]

\* `r?` followed by the rest of the function, which is given the Ok result
\* (value and index); r is evaluated once
DecThen(r, Rest(_)) ==
    CHOOSE y \in {IF ~x.ok THEN DecErr(x.index) ELSE Rest(x) : x \in {r}} : TRUE

\* mutant: the end-of-buffer test of read_byte is missing its last position
read_byte_lenient(data, idx) ==
    IF idx > Len(data) THEN DecErr(idx)
    ELSE DecOk(IF idx < Len(data) THEN data[idx + 1] ELSE 0, idx + 1)

read_byte(data, idx) ==
    IF idx >= Len(data) THEN DecErr(idx) ELSE DecOk(data[idx + 1], idx + 1)

read_list_size(data, idx, tag) ==
    CASE tag = LIST_EMPTY -> DecOk(0, idx)
      [] tag = LIST_8 -> read_byte(data, idx)
      [] tag = LIST_16 ->
            DecThen(read_byte(data, idx),
              LAMBDA high : DecThen(read_byte(data, high.index),
                LAMBDA low : DecOk(high.val * 256 + low.val, low.index)))
      [] OTHER -> DecErr(idx)

\* String::from_utf8: whether bytes k.. of b are well-formed UTF-8
RECURSIVE IsUtf8(_, _)
IsUtf8(b, k) ==
    LET Cont(j) == j <= Len(b) /\ b[j] >= 128 /\ b[j] <= 191
        InRange(j, lo, hi) == j <= Len(b) /\ b[j] >= lo /\ b[j] <= hi
    IN  IF k > Len(b) THEN TRUE
        ELSE IF b[k] < 128 THEN IsUtf8(b, k + 1)
        ELSE IF b[k] >= 194 /\ b[k] <= 223 THEN Cont(k + 1) /\ IsUtf8(b, k + 2)
        ELSE IF b[k] = 224 THEN InRange(k + 1, 160, 191) /\ Cont(k + 2) /\ IsUtf8(b, k + 3)
        ELSE IF b[k] = 237 THEN InRange(k + 1, 128, 159) /\ Cont(k + 2) /\ IsUtf8(b, k + 3)
        ELSE IF b[k] >= 225 /\ b[k] <= 239
        THEN Cont(k + 1) /\ Cont(k + 2) /\ IsUtf8(b, k + 3)
        ELSE IF b[k] = 240
        THEN InRange(k + 1, 144, 191) /\ Cont(k + 2) /\ Cont(k + 3) /\ IsUtf8(b, k + 4)
        ELSE IF b[k] >= 241 /\ b[k] <= 243
        THEN Cont(k + 1) /\ Cont(k + 2) /\ Cont(k + 3) /\ IsUtf8(b, k + 4)
        ELSE IF b[k] = 244
        THEN InRange(k + 1, 128, 143) /\ Cont(k + 2) /\ Cont(k + 3) /\ IsUtf8(b, k + 4)
        ELSE FALSE

read_string_from_chars(data, idx, length) ==
    IF idx + length > Len(data) THEN DecErr(idx)
    ELSE IF IsUtf8(SubSeq(data, idx + 1, idx + length), 1)
    THEN DecOk(SubSeq(data, idx + 1, idx + length), idx + length)
    ELSE DecErr(idx + length)

read_int20(data, idx) ==
    IF idx + 3 > Len(data) THEN DecErr(idx)
    ELSE DecOk((data[idx + 1] % 16) * U16 + data[idx + 2] * 256 + data[idx + 3], idx + 3)

\* u32::from_be_bytes of four read_byte()? calls, `as usize`.  A length of
\* 2^31 or more exceeds every buffer of the model: it is returned as the
\* buffer's length plus one, which fails the same bounds tests.
read_u32(data, idx) ==
    DecThen(read_byte(data, idx),
      LAMBDA b0 : DecThen(read_byte(data, b0.index),
        LAMBDA b1 : DecThen(read_byte(data, b1.index),
          LAMBDA b2 : DecThen(read_byte(data, b2.index),
            LAMBDA b3 :
              IF b0.val >= 128 THEN DecOk(Len(data) + 1, b3.index)
              ELSE DecOk(((b0.val * 256 + b1.val) * 256 + b2.val) * 256 + b3.val,
                         b3.index)))))

\* unpack_nibble: the character as its byte, or -1 for Err
unpack_nibble(nibble, tag) ==
    IF tag = NIBBLE_8
    THEN CASE nibble <= 9 -> 48 + nibble
           [] nibble = 10 -> 45
           [] nibble = 11 -> 46
           [] nibble = 15 -> 0
           [] OTHER -> -1
    ELSE IF tag = HEX_8
    THEN IF nibble <= 9 THEN 48 + nibble ELSE 65 + (nibble - 10)
    ELSE -1

\* the loop of read_packed_string
RECURSIVE read_packed_loop(_, _, _, _, _, _, _)
read_packed_loop(data, idx, tag, length, is_odd_length, i, result) ==
    IF i >= length THEN DecOk(result, idx)
    ELSE IF idx >= Len(data) THEN DecOk(result, idx)   \* break
    ELSE LET byte == data[idx + 1]
             high == unpack_nibble(byte \div 16, tag)
             low == unpack_nibble(byte % 16, tag)
         IN  IF high < 0 THEN DecErr(idx + 1)
             ELSE IF i + 1 < length \/ ~is_odd_length
             THEN IF low < 0 THEN DecErr(idx + 1)
                  ELSE read_packed_loop(data, idx + 1, tag, length, is_odd_length,
                                        i + 1, result \o <<high, low>>)
             ELSE read_packed_loop(data, idx + 1, tag, length, is_odd_length,
                                   i + 1, result \o <<high>>)

read_packed_string(data, idx, tag) ==
    DecThen(read_byte(data, idx),
      LAMBDA length_byte :
        read_packed_loop(data, length_byte.index, tag, length_byte.val % 128,
                         length_byte.val >= 128, 0, <<>>))

RECURSIVE read_string(_, _, _)
read_string(data, idx, tag) ==
    IF tag >= 3 /\ tag < SINGLE_BYTE_MAX
    THEN LET token_idx == tag - 3
         IN  IF token_idx < Len(SINGLE_BYTE_TOKENS)
             THEN IF SINGLE_BYTE_TOKENS[token_idx + 1] = S_s_whatsapp_net
                  THEN DecOk(S_c_us, idx)
                  ELSE DecOk(SINGLE_BYTE_TOKENS[token_idx + 1], idx)
             ELSE DecErr(idx)
    ELSE CASE tag >= DICTIONARY_0 /\ tag <= DICTIONARY_3 ->
                DecThen(read_byte(data, idx),
                  LAMBDA next_byte :
                    LET token_idx == (tag - DICTIONARY_0) * 256 + next_byte.val
                    IN  IF token_idx < Len(SINGLE_BYTE_TOKENS)
                        THEN DecOk(SINGLE_BYTE_TOKENS[token_idx + 1], next_byte.index)
                        ELSE DecErr(next_byte.index))
           [] tag = LIST_EMPTY -> DecOk(<<>>, idx)
           [] tag = BINARY_8 ->
                DecThen(read_byte(data, idx),
                  LAMBDA length : read_string_from_chars(data, length.index, length.val))
           [] tag = BINARY_20 ->
                DecThen(read_int20(data, idx),
                  LAMBDA length : read_string_from_chars(data, length.index, length.val))
           [] tag = BINARY_32 ->
                DecThen(read_u32(data, idx),
                  LAMBDA length : read_string_from_chars(data, length.index, length.val))
           [] tag = JID_PAIR ->
                DecThen(read_byte(data, idx),
                  LAMBDA left_token :
                    DecThen(read_string(data, left_token.index, left_token.val),
                      LAMBDA left : DecThen(read_byte(data, left.index),
                        LAMBDA right_token :
                          DecThen(read_string(data, right_token.index, right_token.val),
                            LAMBDA right :
                              IF left.val = <<>> /\ right.val = <<>>
                              THEN DecErr(right.index)
                              ELSE DecOk(left.val \o <<AT_SIGN>> \o right.val,
                                         right.index)))))
           [] tag = HEX_8 \/ tag = NIBBLE_8 -> read_packed_string(data, idx, tag)
           [] OTHER -> DecErr(idx)

read_binary_content(data, idx, length) ==
    IF idx + length > Len(data) THEN DecErr(idx)
    ELSE DecOk([kind |-> "Binary", v |-> SubSeq(data, idx + 1, idx + length)], idx + length)

is_list_tag(tag) == tag = LIST_EMPTY \/ tag = LIST_8 \/ tag = LIST_16

\* attrs.insert(key, value)
MapInsert(attrs, key, value) ==
    [k \in DOMAIN attrs \cup {key} |-> IF k = key THEN value ELSE attrs[k]]

EmptyMap == [k \in {} |-> <<>>]

NoContent == [kind |-> "None", v |-> <<>>]

\* the attribute loop of read_node
RECURSIVE read_attrs(_, _, _, _)
read_attrs(data, idx, n, attrs) ==
    IF n = 0 THEN DecOk(attrs, idx)
    ELSE DecThen(read_byte(data, idx),
           LAMBDA key_token :
             DecThen(read_string(data, key_token.index, key_token.val),
               LAMBDA key : DecThen(read_byte(data, key.index),
                 LAMBDA value_token :
                   DecThen(read_string(data, value_token.index, value_token.val),
                     LAMBDA value :
                       read_attrs(data, value.index, n - 1,
                                  MapInsert(attrs, key.val, value.val))))))

RECURSIVE read_node_traced(_, _)
RECURSIVE read_content(_, _, _)
RECURSIVE read_list_loop(_, _, _, _)

\* read_node; the Ok value carries, beside the node, the list size that was
\* read and the number of attribute pairs read (num_attrs)
read_node_traced(data, idx) ==
    DecThen(read_byte(data, idx),
      LAMBDA list_size_tag :
        DecThen(read_list_size(data, list_size_tag.index, list_size_tag.val),
          LAMBDA list_size :
            IF list_size.val = 0 THEN DecErr(list_size.index)
            ELSE DecThen(read_byte(data, list_size.index),
              LAMBDA tag_token :
                DecThen(read_string(data, tag_token.index, tag_token.val),
                  LAMBDA tag :
                    DecThen(read_attrs(data, tag.index, (list_size.val - 1) \div 2, EmptyMap),
                      LAMBDA attrs :
                        IF list_size.val % 2 = 0
                        THEN DecThen(read_byte(data, attrs.index),
                               LAMBDA content_token :
                                 DecThen(read_content(data, content_token.index,
                                                      content_token.val),
                                   LAMBDA content :
                                     DecOk([node |-> [tag |-> tag.val,
                                                      attrs |-> attrs.val,
                                                      content |-> content.val],
                                            list_size |-> list_size.val,
                                            num_attrs |-> (list_size.val - 1) \div 2],
                                           content.index)))
                        ELSE DecOk([node |-> [tag |-> tag.val, attrs |-> attrs.val,
                                              content |-> NoContent],
                                    list_size |-> list_size.val,
                                    num_attrs |-> (list_size.val - 1) \div 2],
                                   attrs.index))))))

read_node(data, idx) ==
    DecThen(read_node_traced(data, idx), LAMBDA r : DecOk(r.val.node, r.index))

\* the loop of read_list_nodes
read_list_loop(data, idx, n, nodes) ==
    IF n = 0 THEN DecOk([kind |-> "List", v |-> nodes], idx)
    ELSE DecThen(read_node(data, idx),
           LAMBDA node : read_list_loop(data, node.index, n - 1, Append(nodes, node.val)))

read_list_nodes(data, idx, tag) ==
    DecThen(read_list_size(data, idx, tag),
      LAMBDA size : read_list_loop(data, size.index, size.val, <<>>))

read_content(data, idx, tag) ==
    IF is_list_tag(tag) THEN read_list_nodes(data, idx, tag)
    ELSE CASE tag = BINARY_8 ->
                DecThen(read_byte(data, idx),
                  LAMBDA length : read_binary_content(data, length.index, length.val))
           [] tag = BINARY_20 ->
                DecThen(read_int20(data, idx),
                  LAMBDA length : read_binary_content(data, length.index, length.val))
           [] tag = BINARY_32 ->
                DecThen(read_u32(data, idx),
                  LAMBDA length : read_binary_content(data, length.index, length.val))
           [] OTHER ->
                DecThen(read_string(data, idx, tag),
                  LAMBDA string_content :
                    DecOk([kind |-> "Text", v |-> string_content.val],
                          string_content.index))

----------------------------------------------------------------------------
(* The second codec, node_protocol_new.rs.  write_list_start,               *)
(* write_byte_length, write_int20, write_string_raw, read_byte,             *)
(* read_list_size, read_string_from_chars and read_int20 have the text of   *)
(* node_protocol.rs and are shared; the definitions below are the functions *)
(* whose text differs, and those that call them.  A decoder operation of    *)
(* this file can also panic (a slice past the end of the buffer): the       *)
(* result then has ok = FALSE and a field panic.                            *)

\* `token <= 500` on a u8: the literal at the width of the type
INVALID_TOKEN_MAX == 500 % U8

TOKEN_S_WHATSAPP_NET == 104

write_token_new(data, token) ==
    IF token < SINGLE_BYTE_MAX THEN EncOk(data \o <<token>>)
    ELSE IF token <= INVALID_TOKEN_MAX THEN EncErr(data)
    ELSE EncOk(data)

RECURSIVE write_string_new(_, _, _)
RECURSIVE write_jid_new(_, _, _)

write_string_new(data, s, i) ==
    IF ~i /\ s = S_c_us
    THEN write_token_new(data, TOKEN_S_WHATSAPP_NET)
    ELSE IF TokenPosition(s) >= 0
    THEN LET token_index == TokenPosition(s)
         IN  IF token_index < SINGLE_BYTE_MAX
             THEN write_token_new(data, token_index % U8)
             ELSE LET overflow == token_index - SINGLE_BYTE_MAX
                      dictionary_index == (overflow \div 256) % U8
                  IN  IF dictionary_index < 4
                      THEN EncThen(write_token_new(data, DICTIONARY_0 + dictionary_index),
                                   LAMBDA d : write_token_new(d, overflow % 256))
                      ELSE EncErr(data)
    ELSE IF FindAt(s) >= 0
    THEN LET jid_pos == FindAt(s)
         IN  write_jid_new(data, SubSeq(s, 1, jid_pos), SubSeq(s, jid_pos + 2, Len(s)))
    ELSE write_string_raw(data, s)

write_jid_new(data, left, right) ==
    EncThen(IF left # <<>> THEN write_string_new(data \o <<JID_PAIR>>, left, FALSE)
            ELSE write_token_new(data \o <<JID_PAIR>>, LIST_EMPTY),
            LAMBDA d : write_string_new(d, right, FALSE))

RECURSIVE write_attrs_new(_, _, _, _)
write_attrs_new(data, attrs, order, k) ==
    IF k > Len(order) THEN EncOk(data)
    ELSE EncThen(write_string_new(data, order[k], FALSE),
                 LAMBDA d1 : EncThen(write_string_new(d1, attrs[order[k]], FALSE),
                                     LAMBDA d2 : write_attrs_new(d2, attrs, order, k + 1)))

RECURSIVE write_node_in_new(_, _, _)
RECURSIVE write_content_new(_, _)
RECURSIVE write_nodes_new(_, _, _)

\* write_node of node_protocol_new.rs with the iteration order of this
\* node's attributes given
write_node_in_new(data, node, order) ==
    EncThen(write_list_start(data, Wide(total_children(node))),
      LAMBDA d0 : EncThen(write_string_new(d0, node.tag, FALSE),
        LAMBDA d1 : EncThen(write_attrs_new(d1, node.attrs, order, 1),
          LAMBDA d2 : IF node.content.kind # "None"
                      THEN write_content_new(d2, node.content)
                      ELSE EncOk(d2))))

write_nodes_new(data, nodes, k) ==
    IF k > Len(nodes) THEN EncOk(data)
    ELSE EncThen(write_node_in_new(data, nodes[k], AnyKeyOrder(nodes[k].attrs)),
                 LAMBDA d : write_nodes_new(d, nodes, k + 1))

write_content_new(data, content) ==
    CASE content.kind = "Text" -> write_string_new(data, content.v, TRUE)
      [] content.kind = "Binary" ->
            EncThen(write_byte_length(data, Wide(Len(content.v))),
                    LAMBDA d : EncOk(d \o content.v))
      [] content.kind = "List" ->
            EncThen(write_list_start(data, Wide(Len(content.v))),
                    LAMBDA d : write_nodes_new(d, content.v, 1))

\* a panic of the decoder with the index it had
DecPanic(idx) == [ok |-> FALSE, val |-> <<>>, index |-> idx, panic |-> TRUE]

Panicked(r) == "panic" \in DOMAIN r

\* `r?` followed by the rest of the function; an Err and a panic of r both
\* end the function as they are (r is evaluated once)
DecThenNew(r, Rest(_)) ==
    CHOOSE y \in {IF ~x.ok THEN x ELSE Rest(x) : x \in {r}} : TRUE

read_packed8(data, idx, tag) == DecErr(idx)

RECURSIVE read_string_new(_, _, _)
read_string_new(data, idx, tag) ==
    IF tag >= 3 /\ tag <= SINGLE_BYTE_MAX
    THEN IF tag - 3 < Len(SINGLE_BYTE_TOKENS)
         THEN IF SINGLE_BYTE_TOKENS[tag - 3 + 1] = S_s_whatsapp_net
              THEN DecOk(S_c_us, idx)
              ELSE DecOk(SINGLE_BYTE_TOKENS[tag - 3 + 1], idx)
         ELSE DecErr(idx)
    ELSE CASE tag >= DICTIONARY_0 /\ tag <= DICTIONARY_3 ->
                DecThenNew(read_byte(data, idx), LAMBDA index2 : DecErr(index2.index))
           [] tag = LIST_EMPTY -> DecOk(<<>>, idx)
           [] tag = BINARY_8 ->
                DecThenNew(read_byte(data, idx),
                  LAMBDA length : read_string_from_chars(data, length.index, length.val))
           [] tag = BINARY_20 ->
                DecThenNew(read_int20(data, idx),
                  LAMBDA length : read_string_from_chars(data, length.index, length.val))
           [] tag = BINARY_32 ->
                DecThenNew(read_u32(data, idx),
                  LAMBDA length : read_string_from_chars(data, length.index, length.val))
           [] tag = JID_PAIR ->
                DecThenNew(read_byte(data, idx),
                  LAMBDA left_tag :
                    DecThenNew(read_string_new(data, left_tag.index, left_tag.val),
                      LAMBDA left : DecThenNew(read_byte(data, left.index),
                        LAMBDA right_tag :
                          DecThenNew(read_string_new(data, right_tag.index, right_tag.val),
                            LAMBDA right :
                              IF left.val # <<>> /\ right.val # <<>>
                              THEN DecOk(left.val \o <<AT_SIGN>> \o right.val,
                                         right.index)
                              ELSE DecErr(right.index)))))
           [] tag = NIBBLE_8 \/ tag = HEX_8 -> read_packed8(data, idx, tag)
           [] OTHER -> DecErr(idx)

RECURSIVE read_attrs_new(_, _, _, _)
read_attrs_new(data, idx, n, attrs) ==
    IF n = 0 THEN DecOk(attrs, idx)
    ELSE DecThenNew(read_byte(data, idx),
           LAMBDA key_tag :
             DecThenNew(read_string_new(data, key_tag.index, key_tag.val),
               LAMBDA key : DecThenNew(read_byte(data, key.index),
                 LAMBDA value_tag :
                   DecThenNew(read_string_new(data, value_tag.index, value_tag.val),
                     LAMBDA value :
                       read_attrs_new(data, value.index, n - 1,
                                      MapInsert(attrs, key.val, value.val))))))

RECURSIVE read_node_new(_, _)
RECURSIVE read_content_new(_, _, _)
RECURSIVE read_list_loop_new(_, _, _, _)

read_node_new(data, idx) ==
    DecThenNew(read_byte(data, idx),
      LAMBDA list_size_tag :
        DecThenNew(read_list_size(data, list_size_tag.index, list_size_tag.val),
          LAMBDA list_size :
            IF list_size.val = 0 THEN DecErr(list_size.index)
            ELSE DecThenNew(read_byte(data, list_size.index),
              LAMBDA tag :
                DecThenNew(read_string_new(data, tag.index, tag.val),
                  LAMBDA description :
                    DecThenNew(read_attrs_new(data, description.index,
                                              (list_size.val - 1) \div 2, EmptyMap),
                      LAMBDA attrs :
                        IF list_size.val % 2 = 0
                        THEN DecThenNew(read_byte(data, attrs.index),
                               LAMBDA content_tag :
                                 DecThenNew(read_content_new(data, content_tag.index,
                                                             content_tag.val),
                                   LAMBDA content :
                                     DecOk([tag |-> description.val,
                                            attrs |-> attrs.val,
                                            content |-> content.val],
                                           content.index)))
                        ELSE DecOk([tag |-> description.val, attrs |-> attrs.val,
                                    content |-> NoContent],
                                   attrs.index))))))

\* the loop of read_list
read_list_loop_new(data, idx, n, list) ==
    IF n = 0 THEN DecOk([kind |-> "List", v |-> list], idx)
    ELSE DecThenNew(read_node_new(data, idx),
           LAMBDA node : read_list_loop_new(data, node.index, n - 1,
                                            Append(list, node.val)))

read_list(data, idx, tag) ==
    DecThenNew(read_list_size(data, idx, tag),
      LAMBDA size : read_list_loop_new(data, size.index, size.val, <<>>))

\* &self.data[self.index..self.index + length] panics when the slice ends
\* past the buffer
read_content_new(data, idx, tag) ==
    LET slice(length) ==
            IF length.index + length.val > Len(data) THEN DecPanic(length.index)
            ELSE DecOk([kind |-> "Binary",
                        v |-> SubSeq(data, length.index + 1, length.index + length.val)],
                       length.index + length.val)
    IN
    IF is_list_tag(tag) THEN read_list(data, idx, tag)
    ELSE CASE tag = BINARY_8 -> DecThenNew(read_byte(data, idx), slice)
           [] tag = BINARY_20 -> DecThenNew(read_int20(data, idx), slice)
           [] tag = BINARY_32 -> DecThenNew(read_u32(data, idx), slice)
           [] OTHER ->
                DecThenNew(read_string_new(data, idx, tag),
                  LAMBDA str : DecOk([kind |-> "Text", v |-> str.val], str.index))

----------------------------------------------------------------------------
(* The codec's inputs and its operations as actions *)

\* most attributes of an input node
MaxAttrs == 2

\* most children of an input node's list content
MaxChildren == 2

\* a blob of n bytes
Blob(n) == [i \in 1..n |-> (i * 7) % U8]

MakeNode(tag, attrs, content) == [tag |-> tag, attrs |-> attrs, content |-> content]
Text(s) == [kind |-> "Text", v |-> s]
Binary(b) == [kind |-> "Binary", v |-> b]
List(nodes) == [kind |-> "List", v |-> nodes]

TagInputs == {S_iq, S_message, S_foo}
AttrKeyInputs == {S_type, S_id, S_foo}
AttrValueInputs == {S_get, S_1, S_bar, S_1234_at_s_whatsapp_net, S_abc_at_g_us}

AttrInputs ==
    UNION {[K -> AttrValueInputs] :
              K \in {K \in SUBSET AttrKeyInputs : Cardinality(K) <= MaxAttrs}}

ChildInputs ==
    {MakeNode(S_foo, EmptyMap, NoContent),
     MakeNode(S_bar, [k \in {S_foo} |-> S_bar], Binary(<<7>>)),
     MakeNode(S_message, EmptyMap, Text(S_abc))}

\* the non-empty strings of the token table
TokenStrings ==
    {SINGLE_BYTE_TOKENS[i] : i \in 1..Len(SINGLE_BYTE_TOKENS)} \ {<<>>}

StringInputs ==
    {S_iq, S_type, S_get, S_id, S_1, S_message, S_foo, S_bar, S_s_whatsapp_net, S_c_us,
     S_1234_at_s_whatsapp_net, S_1234_at_c_us, S_abc_at_g_us, S_g_us, S_abc, S_1234,
     S_at_g_us, S_at_lid, S_lid, S_5_at_lid, S_empty}
    \cup TokenStrings

ContentInputs ==
    {NoContent}
    \cup {Text(s) : s \in {S_foo, S_message, S_abc_at_g_us, S_5_at_lid, S_empty}}
    \cup {Binary(b) : b \in {<<>>, <<1, 2, 255>>, Blob(255), Blob(256)}}
    \cup {List(l) : l \in UNION {[1..n -> ChildInputs] : n \in 0..MaxChildren}}

NodeInputs ==
    {MakeNode(t, a, c) : t \in TagInputs, a \in AttrInputs, c \in ContentInputs}

\* list sizes and byte lengths around every boundary of the framing, as limbs
ListSizeInputs ==
    {Wide(n) : n \in {0, 1, 2, 127, 128, 254, 255, 256, 257, 511, 65535}}
    \cup {[hi |-> 1, lo |-> 0], [hi |-> 1, lo |-> 1]}

ByteLengthInputs ==
    {Wide(n) : n \in {0, 1, 254, 255, 256, 257, 65535, 65536, 1048575, 1048576, 1048577}}
    \cup {[hi |-> 65535, lo |-> 65535], [hi |-> 65536, lo |-> 0], [hi |-> 65536, lo |-> 1]}

\* buffers handed to a decoder that no encoder of this model wrote
WireInputs ==
    {<<>>,
     <<LIST_EMPTY>>,
     <<LIST_8>>,
     <<LIST_8, 1, BINARY_8, 2, 105, 113>>,
     <<LIST_8, 1, BINARY_8, 2, 105>>,
     <<LIST_8, 2, BINARY_8, 2, 105, 113, NIBBLE_8, 2, 18, 52>>,
     <<LIST_8, 2, BINARY_8, 2, 105, 113, NIBBLE_8, 2, 18>>,
     <<LIST_8, 2, BINARY_8, 1, 97, BINARY_20, 0, 0, 1>>,
     <<LIST_8, 2, BINARY_8, 2, 105, 113, NIBBLE_8, 130, 18, 52>>,
     <<LIST_8, 2, BINARY_8, 2, 105, 113, HEX_8, 2, 171>>,
     <<LIST_8, 2, BINARY_8, 2, 105, 113, NIBBLE_8, 1, 193>>,
     <<LIST_8, 3, BINARY_8, 1, 97, DICTIONARY_0, 91, DICTIONARY_0, 80>>,
     <<LIST_8, 1, 91>>,
     <<LIST_16, 0, 2, BINARY_8, 1, 97, LIST_8, 1, LIST_8, 1, BINARY_8, 1, 98>>,
     <<LIST_8, 2, BINARY_8, 1, 97, BINARY_20, 0, 0, 1, 9>>,
     <<LIST_8, 2, BINARY_8, 1, 97, BINARY_32, 0, 0, 0, 1, 9>>,
     <<LIST_8, 1, BINARY_32, 255, 0, 0, 1, 9>>,
     <<LIST_8, 1, BINARY_8, 1, 200>>,
     <<LIST_8, 1, JID_PAIR, LIST_EMPTY, LIST_EMPTY>>,
     <<LIST_8, 1, JID_PAIR, LIST_EMPTY, BINARY_8, 1, 97>>,
     <<LIST_8, 1, JID_PAIR, BINARY_8, 1, 97, LIST_EMPTY>>,
     <<STREAM_END>>}

NoNode == MakeNode(<<>>, EmptyMap, NoContent)

NoDecode == [ok |-> FALSE, val |-> <<>>, list_size |-> 0, num_attrs |-> 0]

\* what the caller of read_node holds: Ok(node) or Err, with the count read
Decoded(r) ==
    IF r.ok THEN [ok |-> TRUE, val |-> r.val.node, list_size |-> r.val.list_size,
                  num_attrs |-> r.val.num_attrs]
    ELSE NoDecode

CoLast(op, node, str, size) == [op |-> op, node |-> node, str |-> str, size |-> size]

\* NodeEncoder::new and no decoder yet
InitCodec ==
    /\ enc_data = <<>>
    /\ enc_ret = "New"
    /\ dec_data = <<>>
    /\ dec_index = 0
    /\ dec_ret = NoDecode
    /\ co_last = CoLast("new", NoNode, <<>>, Wide(0))

Fresh == co_last.op = "new"

Ret(r) == IF r.ok THEN "Ok" ELSE "Err"

\* encoder.write_node(&node) on a fresh encoder
WriteNode ==
    /\ Fresh
    /\ \E node \in NodeInputs : \E order \in KeyOrders(node.attrs) :
          \E r \in {write_node_in(enc_data, node, order)} :
              /\ enc_data' = r.data
              /\ enc_ret' = Ret(r)
              /\ co_last' = CoLast("write_node", node, <<>>, Wide(0))
    /\ UNCHANGED <<dec_data, dec_index, dec_ret>>

\* NodeDecoder::new(&encoder.data).read_node() after a write_node that returned Ok
ReadNode ==
    /\ co_last.op = "write_node"
    /\ enc_ret = "Ok"
    /\ \E r \in {read_node_traced(enc_data, 0)} :
          /\ dec_data' = enc_data
          /\ dec_index' = r.index
          /\ dec_ret' = Decoded(r)
    /\ co_last' = [co_last EXCEPT !.op = "read_node"]
    /\ UNCHANGED <<enc_data, enc_ret>>

\* NodeDecoder::new(bytes).read_node() on a buffer from the transport
DecodeBytes ==
    /\ Fresh
    /\ \E bytes \in WireInputs :
          \E r \in {read_node_traced(bytes, 0)} :
              /\ dec_data' = bytes
              /\ dec_index' = r.index
              /\ dec_ret' = Decoded(r)
    /\ co_last' = CoLast("decode_bytes", NoNode, <<>>, Wide(0))
    /\ UNCHANGED <<enc_data, enc_ret>>

\* encoder.write_string(s, false) on a fresh encoder
WriteString ==
    /\ Fresh
    /\ \E s \in StringInputs :
          \E r \in {write_string(enc_data, s, FALSE)} :
              /\ enc_data' = r.data
              /\ enc_ret' = Ret(r)
              /\ co_last' = CoLast("write_string", NoNode, s, Wide(0))
    /\ UNCHANGED <<dec_data, dec_index, dec_ret>>

\* let t = decoder.read_byte()?; decoder.read_string(t) on the bytes written
ReadString ==
    /\ co_last.op = "write_string"
    /\ enc_ret = "Ok"
    /\ \E r \in {DecThen(read_byte(enc_data, 0),
                        LAMBDA t : read_string(enc_data, t.index, t.val))} :
          /\ dec_data' = enc_data
          /\ dec_index' = r.index
          /\ dec_ret' = [ok |-> r.ok, val |-> r.val, list_size |-> 0, num_attrs |-> 0]
    /\ co_last' = [co_last EXCEPT !.op = "read_string"]
    /\ UNCHANGED <<enc_data, enc_ret>>

\* encoder.write_list_start(size) on a fresh encoder
WriteListStart ==
    /\ Fresh
    /\ \E size \in ListSizeInputs :
          \E r \in {write_list_start(enc_data, size)} :
              /\ enc_data' = r.data
              /\ enc_ret' = Ret(r)
              /\ co_last' = CoLast("write_list_start", NoNode, <<>>, size)
    /\ UNCHANGED <<dec_data, dec_index, dec_ret>>

\* encoder.write_byte_length(length) on a fresh encoder
WriteByteLength ==
    /\ Fresh
    /\ \E length \in ByteLengthInputs :
          \E r \in {write_byte_length(enc_data, length)} :
              /\ enc_data' = r.data
              /\ enc_ret' = Ret(r)
              /\ co_last' = CoLast("write_byte_length", NoNode, <<>>, length)
    /\ UNCHANGED <<dec_data, dec_index, dec_ret>>

\* the encoder and decoder are dropped and a new encoder is made
NewCodec ==
    /\ ~Fresh
    /\ enc_data' = <<>>
    /\ enc_ret' = "New"
    /\ dec_data' = <<>>
    /\ dec_index' = 0
    /\ dec_ret' = NoDecode
    /\ co_last' = CoLast("new", NoNode, <<>>, Wide(0))

\* nodes for the two encoders, with and without the words they treat apart
VariantAttrInputs ==
    UNION {[K -> {S_bar, S_c_us, S_1234_at_c_us}] : K \in SUBSET {S_foo, S_abc}}

VariantNodeInputs ==
    {MakeNode(t, a, c) :
        t \in {S_foo, S_iq, S_c_us},
        a \in VariantAttrInputs,
        c \in {NoContent, Text(S_abc), Text(S_c_us), Binary(<<1, 2, 255>>),
               List(<<MakeNode(S_bar, [k \in {S_foo} |-> S_bar], Binary(<<7>>))>>)}}

\* buffers for the two decoders; the last one announces more content than it has
VariantWireInputs ==
    WireInputs \cup {<<LIST_8, 2, BINARY_8, 1, 97, BINARY_8, 5, 1>>,
                     <<LIST_8, 2, BINARY_8, 1, 97, BINARY_8, 1, 98>>,
                     <<LIST_8, 3, BINARY_8, 1, 97, BINARY_8, 1, 98, BINARY_8, 1, 99>>}

\* what read_node of node_protocol.rs returned
ReadOutcome(r) == IF r.ok THEN [ok |-> TRUE, val |-> r.val.node] ELSE [ok |-> FALSE, val |-> NoNode]

\* what read_node of node_protocol_new.rs returned
ReadOutcomeNew(r) ==
    IF r.ok THEN [ok |-> TRUE, val |-> r.val, panic |-> FALSE]
    ELSE [ok |-> FALSE, val |-> NoNode, panic |-> Panicked(r)]

\* write_node of both files on fresh encoders, the attributes of the node
\* visited in the same order
WriteNodeBoth ==
    /\ Fresh
    /\ \E node \in VariantNodeInputs :
          \E order \in KeyOrders(node.attrs) :
              \E r \in {write_node_in(<<>>, node, order)},
                 rn \in {write_node_in_new(<<>>, node, order)} :
                  /\ enc_data' = r.data
                  /\ enc_ret' = Ret(r)
                  /\ co_last' = [op |-> "write_node_both", node |-> node,
                                 new_data |-> rn.data, new_ret |-> Ret(rn)]
    /\ UNCHANGED <<dec_data, dec_index, dec_ret>>

\* read_node of both files on the same buffer
ReadNodeBoth ==
    /\ Fresh
    /\ \E bytes \in VariantWireInputs :
          \E r \in {read_node_traced(bytes, 0)}, rn \in {read_node_new(bytes, 0)} :
              /\ dec_data' = bytes
              /\ dec_index' = r.index
              /\ dec_ret' = Decoded(r)
              /\ co_last' = [op |-> "read_node_both", old |-> ReadOutcome(r),
                             new |-> ReadOutcomeNew(rn)]
    /\ UNCHANGED <<enc_data, enc_ret>>

----------------------------------------------------------------------------
(* AppStateManager (appstate.rs:74-154).  Option<T> is <<>> for None and     *)
(* <<v>> for Some(v); a HashMap is a function on its key set.                *)

\* largest version number of the input entries and patches
MaxVersion == 2

\* most patches buffered in pending_patches at a time
MaxPending == 2

None == <<>>
Some(v) == <<v>>

CollectionNames == {"settings", "contacts"}

Versions == 1..MaxVersion

AppStateEntry(name, ver, data, timestamp) ==
    [name |-> name, version |-> ver, data |-> data, timestamp |-> timestamp]

AppStateSyncPatch(ver, snapshot_mac, patch_mac, patches) ==
    [version |-> ver, snapshot_mac |-> snapshot_mac, patch_mac |-> patch_mac,
     patches |-> patches]

\* entries given to add_entry directly (the data and timestamp of the unit test)
EntryInputs ==
    {AppStateEntry(n, v, <<1, 2, 3>>, 1234567890) : n \in CollectionNames, v \in Versions}

\* the collections a patch touches, in order
PatchNameInputs ==
    {<<"settings">>, <<"settings", "contacts">>}

\* patches as a server sends them: every entry carries the patch's version; the
\* MAC is empty or not
PatchInputs ==
    {AppStateSyncPatch(v, <<>>, mac,
                       [i \in DOMAIN names |-> AppStateEntry(names[i], v, <<v>>, 0)]) :
        v \in Versions, mac \in {<<>>, <<170, 187>>}, names \in PatchNameInputs}

\* AppStateManager::new
InitAppState ==
    /\ state = EmptyMap
    /\ keys = EmptyMap
    /\ version = 0
    /\ current_state = EmptyMap
    /\ pending_patches = <<>>
    /\ pending_requests = EmptyMap
    /\ as_last = [op |-> "new"]
    /\ ap_pc = "idle"
    /\ ap_todo = <<>>
    /\ ap_merged = 0
    /\ rd_obs = [op |-> "none"]

\* mutant: the version of a name already recorded is kept
add_entry_keeps_version(m, entry) ==
    [state |-> MapInsert(m.state, entry.name, entry),
     current_state |-> IF entry.name \in DOMAIN m.current_state
                       THEN m.current_state
                       ELSE MapInsert(m.current_state, entry.name, entry.version)]

\* the manager's two maps after add_entry(entry), from the maps m before
add_entry(m, entry) ==
    [state |-> MapInsert(m.state, entry.name, entry),
     current_state |-> MapInsert(m.current_state, entry.name, entry.version)]

get_entry(name) == IF name \in DOMAIN state THEN Some(state[name]) ELSE None

get_current_version(name) ==
    IF name \in DOMAIN current_state THEN Some(current_state[name]) ELSE None

\* verify_patch_mac: the placeholder test
verify_patch_mac(patch) == patch.patch_mac # <<>>

\* for entry in patch.patches { self.add_entry(entry) }
RECURSIVE apply_entries(_, _, _)
apply_entries(m, entries, k) ==
    IF k > Len(entries) THEN m
    ELSE apply_entries(add_entry(m, entries[k]), entries, k + 1)

\* for patch in self.pending_patches.drain(..) { ... }
RECURSIVE apply_all(_, _, _)
apply_all(m, patches, k) ==
    IF k > Len(patches) THEN m
    ELSE apply_all(apply_entries(m, patches[k].patches, 1), patches, k + 1)

AddEntry ==
    /\ \E entry \in EntryInputs :
          \E m \in {add_entry([state |-> state, current_state |-> current_state], entry)} :
              /\ state' = m.state
              /\ current_state' = m.current_state
              /\ as_last' = [op |-> "add_entry", entry |-> entry]
    /\ UNCHANGED <<keys, version, pending_patches>>

\* mutant: the patch is merged as it is stored
StorePatch_applies ==
    /\ Len(pending_patches) < MaxPending
    /\ \E patch \in PatchInputs :
          /\ pending_patches' = Append(pending_patches, patch)
          /\ \E m \in {apply_entries([state |-> state, current_state |-> current_state],
                                      patch.patches, 1)} :
                /\ state' = m.state
                /\ current_state' = m.current_state
    /\ as_last' = [op |-> "store_patch"]
    /\ UNCHANGED <<keys, version>>

StorePatch ==
    /\ Len(pending_patches) < MaxPending
    /\ \E patch \in PatchInputs : pending_patches' = Append(pending_patches, patch)
    /\ as_last' = [op |-> "store_patch"]
    /\ UNCHANGED <<state, keys, version, current_state>>

\* mutant: the loop iterates over the buffer without draining it
ApplyPatches_keeps_buffer ==
    /\ \E m \in {apply_all([state |-> state, current_state |-> current_state],
                           pending_patches, 1)} :
          /\ state' = m.state
          /\ current_state' = m.current_state
    /\ pending_patches' = pending_patches
    /\ as_last' = [op |-> "apply_patches", drained |-> Len(pending_patches)]
    /\ UNCHANGED <<keys, version>>

\* apply_patches; drained is the number of patches the loop was given
ApplyPatches ==
    /\ \E m \in {apply_all([state |-> state, current_state |-> current_state],
                           pending_patches, 1)} :
          /\ state' = m.state
          /\ current_state' = m.current_state
    /\ pending_patches' = <<>>
    /\ as_last' = [op |-> "apply_patches", drained |-> Len(pending_patches)]
    /\ UNCHANGED <<keys, version>>

----------------------------------------------------------------------------
(* apply_patches statement by statement, with a reader beside it.           *)
(* apply_patches, add_entry and store_patch take &mut self, get_entry and   *)
(* get_current_version take &self (appstate.rs:101-139): a shared borrow    *)
(* and an exclusive borrow of the manager are never live together, whether  *)
(* the manager is owned by one thread or handed around behind a lock.       *)

\* mutant: a reader may look at the manager while apply_patches holds it
shared_borrow_allowed_always == TRUE

\* whether a &self call may start: no &mut self call is in progress
shared_borrow_allowed == ap_pc = "idle"

\* whether the patch being merged has some but not all entries merged
partly_merged ==
    /\ ap_pc # "idle"
    /\ ap_todo # <<>>
    /\ \/ ap_pc = "inserted"
       \/ 0 < ap_merged /\ ap_merged < Len(Head(ap_todo).patches)

\* apply_patches is entered: self.pending_patches.drain(..)
ApplyBegin ==
    /\ ap_pc = "idle"
    /\ pending_patches # <<>>
    /\ ap_pc' = "loop"
    /\ ap_todo' = pending_patches
    /\ ap_merged' = 0
    /\ pending_patches' = <<>>
    /\ UNCHANGED <<state, keys, version, current_state, as_last, rd_obs>>

\* add_entry, first statement: self.state.insert(entry.name.clone(), entry)
ApplyInsertState ==
    /\ ap_pc = "loop"
    /\ ap_todo # <<>>
    /\ ap_merged < Len(Head(ap_todo).patches)
    /\ \E entry \in {Head(ap_todo).patches[ap_merged + 1]} :
          state' = MapInsert(state, entry.name, entry)
    /\ ap_pc' = "inserted"
    /\ UNCHANGED <<keys, version, current_state, pending_patches, as_last, ap_todo,
                   ap_merged, rd_obs>>

\* add_entry, second statement: self.current_state.insert(entry.name, entry.version)
ApplyInsertVersion ==
    /\ ap_pc = "inserted"
    /\ \E entry \in {Head(ap_todo).patches[ap_merged + 1]} :
          current_state' = MapInsert(current_state, entry.name, entry.version)
    /\ ap_merged' = ap_merged + 1
    /\ ap_pc' = "loop"
    /\ UNCHANGED <<state, keys, version, pending_patches, as_last, ap_todo, rd_obs>>

\* the inner loop is through with a patch: the outer loop takes the next one
ApplyNextPatch ==
    /\ ap_pc = "loop"
    /\ ap_todo # <<>>
    /\ ap_merged = Len(Head(ap_todo).patches)
    /\ ap_todo' = Tail(ap_todo)
    /\ ap_merged' = 0
    /\ UNCHANGED <<state, keys, version, current_state, pending_patches, as_last, ap_pc,
                   rd_obs>>

\* apply_patches returns Ok(())
ApplyEnd ==
    /\ ap_pc = "loop"
    /\ ap_todo = <<>>
    /\ ap_pc' = "idle"
    /\ as_last' = [op |-> "apply_patches"]
    /\ UNCHANGED <<state, keys, version, current_state, pending_patches, ap_todo,
                   ap_merged, rd_obs>>

\* store_patch of the writer, between two apply_patches calls
WriterStorePatch ==
    /\ ap_pc = "idle"
    /\ StorePatch
    /\ UNCHANGED <<ap_pc, ap_todo, ap_merged, rd_obs>>

\* a reader calls get_entry(name) and get_current_version(name)
ReaderGet ==
    /\ shared_borrow_allowed
    /\ \E name \in CollectionNames :
          rd_obs' = [op |-> "get", name |-> name, entry |-> get_entry(name),
                     ver |-> get_current_version(name), pc |-> ap_pc,
                     partly |-> partly_merged]
    /\ UNCHANGED <<state, keys, version, current_state, pending_patches, as_last, ap_pc,
                   ap_todo, ap_merged>>

----------------------------------------------------------------------------
(* AppStateSyncManager (appstate_sync.rs:118-196), over the same            *)
(* AppStateManager                                                          *)

\* most patches in one sync response
MaxBatch == 3

\* largest value of AppStateManager.version the model follows
MaxSyncVersion == 3

AppStateSyncKey(key_id, key_data) == [key_id |-> key_id, key_data |-> key_data]

KeyInputs == {AppStateSyncKey(<<id>>, KeyBytes(id, 4)) : id \in 1..2}

\* the patches of a response: handle_sync_response reads their patch_mac only
ResponsePatchInputs ==
    {AppStateSyncPatch(1, <<>>, mac, <<AppStateEntry("settings", 1, <<1>>, 0)>>) :
        mac \in {<<>>, <<170, 187>>}}

RECURSIVE SeqsUpTo(_, _)
SeqsUpTo(S, n) ==
    IF n = 0 THEN {<<>>}
    ELSE SeqsUpTo(S, n - 1) \cup {Append(q, x) : q \in SeqsUpTo(S, n - 1), x \in S}

ResponseInputs == SeqsUpTo(ResponsePatchInputs, MaxBatch)

\* self.version += 1
update_version(v) == v + 1

\* the loop of handle_sync_response from patch k on, with the version v so far:
\* the first patch that fails verify_patch_mac returns the error
RECURSIVE handle_sync_response(_, _, _)
handle_sync_response(v, patches, k) ==
    IF k > Len(patches) THEN [ret |-> "Ok", version |-> v]
    ELSE IF verify_patch_mac(patches[k])
         THEN handle_sync_response(update_version(v), patches, k + 1)
         ELSE [ret |-> "Err", version |-> v]

HandleSyncResponse ==
    /\ \E patches \in ResponseInputs :
          /\ version + Len(patches) <= MaxSyncVersion
          /\ \E r \in {handle_sync_response(version, patches, 1)} :
                /\ version' = r.version
                /\ as_last' = [op |-> "handle_sync_response", ret |-> r.ret,
                               patches |-> patches, version |-> version]
    /\ UNCHANGED <<state, keys, current_state, pending_patches>>

get_app_state_key(key_id) == IF key_id \in DOMAIN keys THEN Some(keys[key_id]) ELSE None

RegisterAppStateKey ==
    /\ \E key \in KeyInputs : keys' = MapInsert(keys, key.key_id, key)
    /\ as_last' = [op |-> "register_app_state_key"]
    /\ UNCHANGED <<state, version, current_state, pending_patches>>

\* AppStateType (appstate.rs:10-17)
AppStateTypes ==
    {"Regular", "CriticalBlock", "CriticalUnblockLow", "RegularHigh", "RegularLow"}

\* AppStateType::into_string
into_string(t) ==
    CASE t = "Regular" -> "regular"
      [] t = "CriticalBlock" -> "critical_block"
      [] t = "CriticalUnblockLow" -> "critical_unblock_low"
      [] t = "RegularHigh" -> "regular_high"
      [] t = "RegularLow" -> "regular_low"

\* mutant: the two regular_* priorities are matched the wrong way round
from_string_swapped(s) ==
    CASE s = "regular" -> Some("Regular")
      [] s = "critical_block" -> Some("CriticalBlock")
      [] s = "critical_unblock_low" -> Some("CriticalUnblockLow")
      [] s = "regular_high" -> Some("RegularLow")
      [] s = "regular_low" -> Some("RegularHigh")
      [] OTHER -> None

\* AppStateType::from_string: Some(t) stands for Ok(t), None for the Err
from_string(s) ==
    CASE s = "regular" -> Some("Regular")
      [] s = "critical_block" -> Some("CriticalBlock")
      [] s = "critical_unblock_low" -> Some("CriticalUnblockLow")
      [] s = "regular_high" -> Some("RegularHigh")
      [] s = "regular_low" -> Some("RegularLow")
      [] OTHER -> None

\* strings handed to from_string: the wire strings and near misses of them
TypeStringInputs ==
    {into_string(t) : t \in AppStateTypes}
        \cup {"", "Regular", "REGULAR", "regular ", "critical", "critical-block",
              "critical_unblock", "regular_medium", "full", "patch"}

\* t.into_string() followed by AppStateType::from_string of the result
TypeIntoString ==
    /\ \E t \in AppStateTypes :
          as_last' = [op |-> "into_string", arg |-> t, ret |-> into_string(t),
                      back |-> from_string(into_string(t))]
    /\ UNCHANGED <<state, keys, version, current_state, pending_patches>>

\* AppStateType::from_string(s)
TypeFromString ==
    /\ \E s \in TypeStringInputs :
          as_last' = [op |-> "from_string", arg |-> s, ret |-> from_string(s)]
    /\ UNCHANGED <<state, keys, version, current_state, pending_patches>>

\* most requests request_sync is followed through
MaxRequests == 2

\* the ids Uuid::new_v4 hands out: opaque, and new at every call
RequestIds == 1..MaxRequests

\* the types vectors request_sync is called with
SyncTypeInputs ==
    {<<>>, <<"Regular">>, <<"Regular", "CriticalBlock">>}

\* AppStateSyncRequest::new(kind, types) (appstate_sync.rs:31-38)
AppStateSyncRequest(kind, types) ==
    [type |-> kind, app_state_types |-> types, version |-> 0]

\* request_sync(types) with the generated request_id: the map after the call
\* and the message returned
request_sync(requests, types, request_id) ==
    [pending_requests |->
        MapInsert(requests, request_id, AppStateSyncRequest("Initial", types)),
     ret |-> [kind |-> "MessagesBefore", jid |-> "status@broadcast",
              id |-> request_id, count |-> 1]]

RequestSync ==
    /\ \E types \in SyncTypeInputs :
          \E request_id \in RequestIds \ DOMAIN pending_requests :
             \E r \in {request_sync(pending_requests, types, request_id)} :
                /\ pending_requests' = r.pending_requests
                /\ as_last' = [op |-> "request_sync", types |-> types,
                               ret |-> "Ok", emitted |-> <<r.ret>>]
    /\ UNCHANGED <<state, keys, version, current_state, pending_patches>>

----------------------------------------------------------------------------
(* Session (session.rs:7-23, 57-105, 148-184).  The methods from line 148 on *)
(* stand after the helper functions in the file; they are modelled as the    *)
(* methods of Session they are written as.                                   *)

\* largest one-time pre-key id the model hands out
MaxPreKeyId == 3

\* values of one random byte the generators are modelled to draw
RandomByteInputs == {0, 1, 63, 64, 255}

\* session.rs generate_registration_id: two random bytes, little endian, widened
generate_registration_id(bytes) == (bytes[1] + 256 * bytes[2]) % U16

\* crypto_multi_device.rs generate_registration_id: four random bytes, little
\* endian, masked to 14 bits.  (b3 * 2^16 + b4 * 2^24 vanish under the mask.)
multi_device_generate_registration_id(bytes) == (bytes[1] + 256 * bytes[2]) % 16384

\* MultiDeviceSession::default: two random bytes, little endian
multi_device_session_default(bytes) == bytes[1] + 256 * bytes[2]

generate_identity_key_pair(seed) ==
    [public_key |-> KeyBytes(seed, KeyLen), private_key |-> KeyBytes(seed + 1, KeyLen)]

generate_signed_pre_key(seed) ==
    [key_id |-> 1, public_key |-> KeyBytes(seed, KeyLen),
     signature |-> KeyBytes(seed + 1, 2 * KeyLen), timestamp |-> 0]

Key(key_id, public_key) == [key_id |-> key_id, public_key |-> public_key]

TokenInputs == {"", "token"}

IdentityInputs == {<<"", "">>, <<"1234@c.us", "Ann">>}

\* (enc_key, mac_key) pairs handed to update_encryption_keys
KeyPairInputs ==
    {<<KeyBytes(1, KeyLen), KeyBytes(2, KeyLen)>>,
     <<KeyBytes(1, KeyLen - 1), KeyBytes(2, KeyLen)>>,
     <<KeyBytes(1, KeyLen), KeyBytes(2, KeyLen + 1)>>,
     <<<<>>, <<>>>>}

\* Session::new, with the random bytes it draws for the registration id
SessionNew(bytes) ==
    /\ client_token = ""
    /\ server_token = ""
    /\ wid = ""
    /\ push_name = ""
    /\ is_logged_in = FALSE
    /\ registration_id = generate_registration_id(bytes)
    /\ identity_key_pair = generate_identity_key_pair(5)
    /\ signed_pre_key = generate_signed_pre_key(7)
    /\ one_time_keys = EmptyMap
    /\ next_pre_key_id = 1

InitSession ==
    /\ SessionNew(<<0, 0>>)
    /\ se_last = [op |-> "new", ret |-> 0, keyed |-> FALSE, removed |-> {}]

\* a session is constructed anew, with other random bytes
NewSession ==
    /\ \E b1 \in RandomByteInputs, b2 \in RandomByteInputs :
          /\ registration_id' = generate_registration_id(<<b1, b2>>)
          /\ se_last' = [op |-> "new", ret |-> registration_id', keyed |-> FALSE, removed |-> {}]
    /\ client_token' = ""
    /\ server_token' = ""
    /\ wid' = ""
    /\ push_name' = ""
    /\ is_logged_in' = FALSE
    /\ enc_key' = ZeroKey
    /\ mac_key' = ZeroKey
    /\ one_time_keys' = EmptyMap
    /\ next_pre_key_id' = 1
    /\ UNCHANGED <<identity_key_pair, signed_pre_key>>

\* update_encryption_keys is defined twice (session.rs:82-85 and 180-184); the
\* second also sets is_logged_in
UpdateEncryptionKeys ==
    /\ \E pair \in KeyPairInputs :
          /\ enc_key' = pair[1]
          /\ mac_key' = pair[2]
    /\ is_logged_in' \in {is_logged_in, TRUE}
    /\ se_last' = [se_last EXCEPT !.op = "update_encryption_keys", !.ret = 0,
                                   !.keyed = TRUE]
    /\ UNCHANGED <<client_token, server_token, wid, push_name, registration_id,
                   identity_key_pair, signed_pre_key, one_time_keys, next_pre_key_id>>

\* mutant: storing the tokens puts the placeholder keys back
SetAuthTokens_resets_keys ==
    /\ \E ct \in TokenInputs, st \in TokenInputs :
          /\ client_token' = ct
          /\ server_token' = st
    /\ enc_key' = ZeroKey
    /\ mac_key' = ZeroKey
    /\ se_last' = [se_last EXCEPT !.op = "set_auth_tokens", !.ret = 0]
    /\ UNCHANGED <<wid, push_name, is_logged_in, registration_id,
                   identity_key_pair, signed_pre_key, one_time_keys, next_pre_key_id>>

SetAuthTokens ==
    /\ \E ct \in TokenInputs, st \in TokenInputs :
          /\ client_token' = ct
          /\ server_token' = st
    /\ se_last' = [se_last EXCEPT !.op = "set_auth_tokens", !.ret = 0]
    /\ UNCHANGED <<enc_key, mac_key, wid, push_name, is_logged_in, registration_id,
                   identity_key_pair, signed_pre_key, one_time_keys, next_pre_key_id>>

SetUserIdentity ==
    /\ \E id \in IdentityInputs :
          /\ wid' = id[1]
          /\ push_name' = id[2]
    /\ se_last' = [se_last EXCEPT !.op = "set_user_identity", !.ret = 0]
    /\ UNCHANGED <<enc_key, mac_key, client_token, server_token, is_logged_in,
                   registration_id, identity_key_pair, signed_pre_key, one_time_keys,
                   next_pre_key_id>>

is_valid ==
    /\ client_token # ""
    /\ server_token # ""
    /\ Len(enc_key) = 32
    /\ Len(mac_key) = 32

\* mutant: the id is the map's size plus one
add_one_time_key_by_size(otk, next) ==
    [key_id |-> Cardinality(DOMAIN otk) + 1, next_pre_key_id |-> next + 1]

\* the id add_one_time_key takes and the counter it leaves (a u32; the guard of
\* AddOneTimeKey keeps it far below the wrap)
add_one_time_key(otk, next) ==
    [key_id |-> next, next_pre_key_id |-> next + 1]

AddOneTimeKey ==
    /\ next_pre_key_id <= MaxPreKeyId
    /\ \E r \in {add_one_time_key(one_time_keys, next_pre_key_id)} :
          /\ next_pre_key_id' = r.next_pre_key_id
          /\ \E seed \in 1..2 :
                one_time_keys' =
                    MapInsert(one_time_keys, r.key_id, Key(r.key_id, KeyBytes(seed, KeyLen)))
          /\ se_last' = [se_last EXCEPT !.op = "add_one_time_key", !.ret = r.key_id]
    /\ UNCHANGED <<enc_key, mac_key, client_token, server_token, wid, push_name,
                   is_logged_in, registration_id, identity_key_pair, signed_pre_key>>

\* mutant: removing a key also gives its id back to the counter
remove_used_key_reuse(otk, next, key_id) ==
    [one_time_keys |-> [k \in DOMAIN otk \ {key_id} |-> otk[k]],
     next_pre_key_id |-> IF key_id \in DOMAIN otk /\ key_id + 1 = next THEN key_id ELSE next]

remove_used_key(otk, next, key_id) ==
    [one_time_keys |-> [k \in DOMAIN otk \ {key_id} |-> otk[k]],
     next_pre_key_id |-> next]

RemoveUsedKey ==
    /\ \E key_id \in 0..(MaxPreKeyId + 1) :
          \E r \in {remove_used_key(one_time_keys, next_pre_key_id, key_id)} :
              /\ one_time_keys' = r.one_time_keys
              /\ next_pre_key_id' = r.next_pre_key_id
              /\ se_last' = [se_last EXCEPT
                                 !.op = "remove_used_key", !.ret = key_id,
                                 !.removed = @ \cup ({key_id} \cap DOMAIN one_time_keys)]
    /\ UNCHANGED <<enc_key, mac_key, client_token, server_token, wid, push_name,
                   is_logged_in, registration_id, identity_key_pair, signed_pre_key>>

get_available_one_time_keys == {one_time_keys[k] : k \in DOMAIN one_time_keys}

\* the other two generators of registration ids, called on their own
GenerateRegistrationId ==
    /\ \E b1 \in RandomByteInputs, b2 \in RandomByteInputs,
          b3 \in RandomByteInputs, b4 \in RandomByteInputs :
          se_last' = [se_last EXCEPT !.op = "generate_registration_id",
                         !.ret = multi_device_generate_registration_id(<<b1, b2, b3, b4>>)]
    /\ UNCHANGED <<enc_key, mac_key, client_token, server_token, wid, push_name,
                   is_logged_in, registration_id, identity_key_pair, signed_pre_key,
                   one_time_keys, next_pre_key_id>>

MultiDeviceSessionDefault ==
    /\ \E b1 \in RandomByteInputs, b2 \in RandomByteInputs :
          se_last' = [se_last EXCEPT !.op = "multi_device_session_default",
                         !.ret = multi_device_session_default(<<b1, b2>>)]
    /\ UNCHANGED <<enc_key, mac_key, client_token, server_token, wid, push_name,
                   is_logged_in, registration_id, identity_key_pair, signed_pre_key,
                   one_time_keys, next_pre_key_id>>

----------------------------------------------------------------------------
(* Message protection (crypto.rs:69-117).  HMAC-SHA256 is a 32-byte digest  *)
(* of key and data; the model computes a weighted checksum in its place.    *)

\* the sum of (k + 1) * s[k] over the positions lo..hi, modulo 2^16, by halves
RECURSIVE WeightedRange(_, _, _)
WeightedRange(s, lo, hi) ==
    IF lo > hi THEN 0
    ELSE IF lo = hi THEN ((lo + 1) * s[lo]) % U16
    ELSE (WeightedRange(s, lo, (lo + hi) \div 2)
            + WeightedRange(s, (lo + hi) \div 2 + 1, hi)) % U16

Weighted(s, k) == WeightedRange(s, k, Len(s))

hmac_sha256(key, data) ==
    CHOOSE digest \in {[i \in 1..32 |-> (sum + i) % U8] :
                          sum \in {7 * Weighted(key, 1) + Weighted(data, 1) + Len(data)}} :
        TRUE

\* placeholders of the source: both return the data as it is
encrypt_message(e_key, m_key, message) == message

decrypt_message(e_key, m_key, encrypted_message) == encrypted_message

sign_message(m_key, message) == hmac_sha256(m_key, message)

sign_and_encrypt_message(e_key, m_key, message) ==
    sign_message(m_key, encrypt_message(e_key, m_key, message))
        \o encrypt_message(e_key, m_key, message)

verify_and_decrypt_message(e_key, m_key, message) ==
    IF Len(message) < 32 THEN [ok |-> FALSE, val |-> <<>>]
    ELSE IF SubSeq(message, 1, 32) # sign_message(m_key, SubSeq(message, 33, Len(message)))
         THEN [ok |-> FALSE, val |-> <<>>]
         ELSE [ok |-> TRUE,
               val |-> decrypt_message(e_key, m_key, SubSeq(message, 33, Len(message)))]

\* verify_and_decrypt_message with a note of whether it got as far as
\* calling decrypt_message
verify_and_decrypt_traced(e_key, m_key, message) ==
    IF Len(message) < 32 THEN [ok |-> FALSE, val |-> <<>>, decrypted |-> FALSE]
    ELSE IF SubSeq(message, 1, 32) # sign_message(m_key, SubSeq(message, 33, Len(message)))
         THEN [ok |-> FALSE, val |-> <<>>, decrypted |-> FALSE]
         ELSE [ok |-> TRUE,
               val |-> decrypt_message(e_key, m_key, SubSeq(message, 33, Len(message))),
               decrypted |-> TRUE]

\* the functions of the same names in crypto_new.rs: placeholders that
\* return the message
sign_and_encrypt_message_new(e_key, m_key, message) == message

verify_and_decrypt_message_new(e_key, m_key, message) ==
    [ok |-> TRUE, val |-> message, decrypted |-> FALSE]

CryptoVariants == {"crypto", "crypto_new"}

sign_and_encrypt(variant, e_key, m_key, message) ==
    IF variant = "crypto" THEN sign_and_encrypt_message(e_key, m_key, message)
    ELSE sign_and_encrypt_message_new(e_key, m_key, message)

verify_and_decrypt(variant, e_key, m_key, message) ==
    IF variant = "crypto" THEN verify_and_decrypt_traced(e_key, m_key, message)
    ELSE verify_and_decrypt_message_new(e_key, m_key, message)

ProtectionKeyInputs == {KeyBytes(seed, KeyLen) : seed \in 1..2}

PlainInputs == {<<>>, <<1, 2, 3>>, <<123, 34, 107, 34, 58, 49, 125>>, Blob(31), Blob(32), Blob(40)}

\* the byte at position k replaced by another
FlipByte(bytes, k) == [bytes EXCEPT ![k] = (bytes[k] + 1) % U8]

\* what can arrive in place of the signed message: cut short, a byte of the
\* HMAC or of the body changed, signed under another key, nothing
ReceivedInputs(e_key, m_key) ==
    UNION {{SubSeq(signed, 1, 31), SubSeq(signed, 1, Len(signed) - 1),
            FlipByte(signed, 1), FlipByte(signed, 32), FlipByte(signed, Len(signed))} :
              signed \in {sign_and_encrypt_message(e_key, m_key, m) :
                             m \in PlainInputs \ {<<>>}}}
    \cup {sign_and_encrypt_message(e_key, KeyBytes(3, KeyLen), <<1, 2, 3>>), <<>>, <<1, 2, 3>>}

cl_rest == <<connection_state, sender, socket_out, event_queue, connect_pc, session_is_some>>

\* sign_and_encrypt_message(enc_key, mac_key, message)
SignAndEncryptMessage ==
    /\ \E variant \in CryptoVariants, e_key \in ProtectionKeyInputs,
          m_key \in ProtectionKeyInputs, message \in PlainInputs :
          cl_last' = [op |-> "sign_and_encrypt_message", variant |-> variant,
                      e_key |-> e_key, m_key |-> m_key, sent |-> <<message>>,
                      ret |-> sign_and_encrypt(variant, e_key, m_key, message)]
    /\ UNCHANGED cl_rest

\* verify_and_decrypt_message of the same module and keys on the bytes that
\* sign_and_encrypt_message returned
VerifyAndDecryptMessage ==
    /\ cl_last.op = "sign_and_encrypt_message"
    /\ cl_last' = [op |-> "verify_and_decrypt_message", variant |-> cl_last.variant,
                   e_key |-> cl_last.e_key, m_key |-> cl_last.m_key,
                   sent |-> cl_last.sent, arg |-> cl_last.ret,
                   ret |-> verify_and_decrypt(cl_last.variant, cl_last.e_key,
                                              cl_last.m_key, cl_last.ret)]
    /\ UNCHANGED cl_rest

\* verify_and_decrypt_message on bytes from the line
VerifyReceivedMessage ==
    /\ cl_last.op # "verify_received"
    /\ \E variant \in CryptoVariants, e_key \in ProtectionKeyInputs,
          m_key \in ProtectionKeyInputs :
          \E bytes \in ReceivedInputs(e_key, m_key) :
              cl_last' = [op |-> "verify_received", variant |-> variant,
                          e_key |-> e_key, m_key |-> m_key, sent |-> <<>>, arg |-> bytes,
                          ret |-> verify_and_decrypt(variant, e_key, m_key, bytes)]
    /\ UNCHANGED cl_rest

----------------------------------------------------------------------------
(* WhatsAppClient and WsHandler (lib.rs:197-205, 207-270, 364-392, 418-431, *)
(* 466-486, 494-522, 550-597) and derive_session_keys (crypto.rs:25-67)     *)

\* most events waiting in the channel
MaxEvents == 2

\* most frames kept of what went to the socket
MaxFrames == 2

S_action == <<97, 99, 116, 105, 111, 110>>  \* "action"
S_relay == <<114, 101, 108, 97, 121>>  \* "relay"
S_epoch == <<101, 112, 111, 99, 104>>  \* "epoch"

\* stands for the JSON text of a WebMessageInfo
WebMessageJson == <<123, 34, 107, 34, 58, 49, 125>>

\* serde_json::from_slice::<WebMessageInfo>
from_slice(bytes) == bytes = WebMessageJson

\* a "message" node with binary content, as the decoder reads it
MessageFrame(tag, payload) ==
    <<LIST_8, 2, BINARY_8, Len(tag)>> \o tag \o <<BINARY_8, Len(payload)>> \o payload

\* binary frames a server or an attacker on the line delivers: plain nodes, the
\* same signed under the session's keys, signed under another key, cut short
FrameInputs(e_key, m_key) ==
    {MessageFrame(S_message, WebMessageJson),
     MessageFrame(S_message, S_foo),
     MessageFrame(S_foo, WebMessageJson),
     sign_and_encrypt_message(e_key, m_key, MessageFrame(S_message, WebMessageJson)),
     sign_and_encrypt_message(e_key, KeyBytes(3, KeyLen), MessageFrame(S_message, WebMessageJson)),
     SubSeq(MessageFrame(S_message, WebMessageJson), 1, 10),
     <<>>}

Event(kind, payload) == [kind |-> kind, payload |-> payload]

\* the init request of the connection factory, a text frame
InitRequest == [kind |-> "Text", data |-> <<>>]

BinaryFrame(data) == [kind |-> "Binary", data |-> data]

ClLast(op, ret, frame) == [op |-> op, ret |-> ret, frame |-> frame]

\* WhatsAppClient::new
InitClient ==
    /\ connection_state = "Disconnected"
    /\ sender = "None"
    /\ socket_out = <<>>
    /\ event_queue = <<>>
    /\ connect_pc = "idle"
    /\ session_is_some = FALSE
    /\ ev_moved = <<>>
    /\ cl_last = ClLast("new", "Ok", <<>>)

\* connect: the spawned thread starts
ConnectSpawn ==
    /\ connect_pc = "idle"
    /\ connection_state' = "Connecting"
    /\ connect_pc' = "connecting"
    /\ cl_last' = ClLast("connect", "Ok", <<>>)
    /\ UNCHANGED <<sender, socket_out, event_queue, session_is_some>>

\* connect: the factory closure of ws::connect, once the socket is open
ConnectOpen ==
    /\ connect_pc = "connecting"
    /\ Len(event_queue) < MaxEvents
    /\ Len(socket_out) < MaxFrames
    /\ sender' = "Some"
    /\ connection_state' = "Authenticating"
    /\ event_queue' = Append(event_queue, Event("Authenticating", <<>>))
    /\ socket_out' = Append(socket_out, InitRequest)
    /\ connect_pc' = "open"
    /\ cl_last' = ClLast("ws_connect", "Ok", <<>>)
    /\ UNCHANGED session_is_some

\* connect: ws::connect returned an error
ConnectFailed ==
    /\ connect_pc = "connecting"
    /\ Len(event_queue) < MaxEvents
    /\ event_queue' = Append(event_queue, Event("Error", <<>>))
    /\ connection_state' = "Disconnected"
    /\ connect_pc' = "idle"
    /\ cl_last' = ClLast("ws_connect", "Err", <<>>)
    /\ UNCHANGED <<sender, socket_out, session_is_some>>

\* WsHandler::on_close
OnClose ==
    /\ connect_pc = "open"
    /\ Len(event_queue) < MaxEvents
    /\ connection_state' = "Disconnected"
    /\ event_queue' = Append(event_queue, Event("Disconnected", <<>>))
    /\ connect_pc' = "idle"
    /\ cl_last' = ClLast("on_close", "Ok", <<>>)
    /\ UNCHANGED <<sender, socket_out, session_is_some>>

Disconnect ==
    /\ sender' = "None"
    /\ connection_state' = "Disconnected"
    /\ cl_last' = ClLast("disconnect", "Ok", <<>>)
    /\ UNCHANGED <<socket_out, event_queue, connect_pc, session_is_some>>

\* the node send_web_message builds around the serialized message
WebMessageNode(serialized) ==
    MakeNode(S_action, (S_type :> S_relay) @@ (S_epoch :> S_1), Binary(serialized))

\* send_web_message: encode the node, hand encoder.data to the socket
SendWebMessage ==
    /\ Len(socket_out) < MaxFrames
    /\ IF sender = "Some"
       THEN \E order \in KeyOrders(WebMessageNode(WebMessageJson).attrs) :
              \E r \in {write_node_in(<<>>, WebMessageNode(WebMessageJson), order)} :
                 IF r.ok
                 THEN /\ socket_out' = Append(socket_out, BinaryFrame(r.data))
                      /\ cl_last' = ClLast("send_web_message", "Ok", r.data)
                 ELSE /\ socket_out' = socket_out
                      /\ cl_last' = ClLast("send_web_message", "Err", <<>>)
       ELSE /\ socket_out' = socket_out
            /\ cl_last' = ClLast("send_web_message", "Err", <<>>)
    /\ UNCHANGED <<connection_state, sender, event_queue, connect_pc, session_is_some>>

\* WsHandler::handle_binary_message
HandleBinaryMessage ==
    /\ connect_pc = "open"
    /\ Len(event_queue) < MaxEvents
    /\ \E data \in FrameInputs(enc_key, mac_key) :
          \E r \in {read_node(data, 0)} :
              /\ event_queue' =
                    IF /\ r.ok
                       /\ r.val.tag = S_message
                       /\ r.val.content.kind = "Binary"
                       /\ from_slice(r.val.content.v)
                    THEN Append(event_queue, Event("MessageReceived", r.val.content.v))
                    ELSE event_queue
              /\ cl_last' = ClLast("handle_binary_message", "Ok", data)
    /\ UNCHANGED <<connection_state, sender, socket_out, connect_pc, session_is_some>>

PollEvent ==
    /\ event_queue # <<>>
    /\ event_queue' = Tail(event_queue)
    /\ cl_last' = ClLast("poll_event", "Ok", <<>>)
    /\ UNCHANGED <<connection_state, sender, socket_out, connect_pc, session_is_some>>

\* the 112 bytes HKDF-SHA256 expands the shared secret to (a stand-in that
\* depends on every byte position of the secret)
hkdf_expand(shared_secret) ==
    [i \in 1..112 |-> (shared_secret[((i - 1) % KeyLen) + 1] + 3 * i) % U8]

\* mutant: the HMAC of the secret is not compared
derive_session_keys_unverified(our_private_key, server_identity_public, expected_hmac, encrypted_keys) ==
    LET agreed == agree_ephemeral(our_private_key, server_identity_public)
    IN  IF ~agreed.ok
        THEN [ok |-> FALSE, enc_key |-> <<>>, mac_key |-> <<>>]
        ELSE [ok |-> TRUE,
              enc_key |-> SubSeq(hkdf_expand(agreed.secret), 1, 32),
              mac_key |-> SubSeq(hkdf_expand(agreed.secret), 33, 64)]

\* crypto::derive_session_keys with the private key generate_keypair drew: the
\* HMAC is computed under the all-zero key over the public key and the
\* encrypted keys
derive_session_keys(our_private_key, server_identity_public, expected_hmac, encrypted_keys) ==
    LET agreed == agree_ephemeral(our_private_key, server_identity_public)
    IN  IF ~agreed.ok
        THEN [ok |-> FALSE, enc_key |-> <<>>, mac_key |-> <<>>]
        ELSE IF hmac_sha256(ZeroKey, server_identity_public \o encrypted_keys)
                    # expected_hmac
        THEN [ok |-> FALSE, enc_key |-> <<>>, mac_key |-> <<>>]
        ELSE [ok |-> TRUE,
              enc_key |-> SubSeq(hkdf_expand(agreed.secret), 1, 32),
              mac_key |-> SubSeq(hkdf_expand(agreed.secret), 33, 64)]

\* length of the decoded secret that process_secret accepts
SecretLen == 144

\* the secret of a Conn message: a text that is base64 for the given bytes, or
\* a text that is not base64 at all
Secret(is_base64, bytes) == [is_base64 |-> is_base64, bytes |-> bytes]

\* base64::decode of the secret text
base64_decode(secret) ==
    IF secret.is_base64 THEN [ok |-> TRUE, val |-> secret.bytes]
    ELSE [ok |-> FALSE, val |-> <<>>]

\* a secret as the server lays it out: public key, HMAC, encrypted keys
SecretBytes(server_identity_public, expected_hmac, encrypted_keys) ==
    server_identity_public \o expected_hmac \o encrypted_keys

GoodSecret ==
    SecretBytes(KeyBytes(1, KeyLen),
                hmac_sha256(ZeroKey, KeyBytes(1, KeyLen) \o KeyBytes(2, 80)),
                KeyBytes(2, 80))

SecretInputs ==
    {Secret(TRUE, GoodSecret),
     \* the HMAC of other data
     Secret(TRUE, SecretBytes(KeyBytes(1, KeyLen),
                              hmac_sha256(ZeroKey, KeyBytes(1, KeyLen) \o KeyBytes(1, 80)),
                              KeyBytes(2, 80))),
     \* a low-order public key under a matching HMAC
     Secret(TRUE, SecretBytes(ZeroKey,
                              hmac_sha256(ZeroKey, ZeroKey \o KeyBytes(2, 80)),
                              KeyBytes(2, 80))),
     Secret(TRUE, SubSeq(GoodSecret, 1, SecretLen - 1)),
     Secret(TRUE, GoodSecret \o <<0>>),
     Secret(TRUE, <<>>),
     Secret(FALSE, <<>>)}

\* the fields of a JSON message of type "Conn" that the handler reads
ConnMessage(ct, st, secret) == [clientToken |-> ct, serverToken |-> st, secret |-> secret]

ConnInputs ==
    {ConnMessage(Some("token"), None, None)}
        \cup {ConnMessage(Some("token"), Some("token"), secret) :
                 secret \in {None} \cup {Some(x) : x \in SecretInputs}}

\* process_secret up to the point where it takes the session lock: "Err" for
\* an early return, "Lock" when the derived keys are ready to be stored
process_secret(secret, our_private_key) ==
    LET decoded == base64_decode(secret)
    IN  IF ~decoded.ok THEN [ret |-> "Err", enc_key |-> <<>>, mac_key |-> <<>>]
        ELSE IF Len(decoded.val) # SecretLen
        THEN [ret |-> "Err", enc_key |-> <<>>, mac_key |-> <<>>]
        ELSE LET session_keys ==
                     derive_session_keys(our_private_key,
                                         SubSeq(decoded.val, 1, 32),
                                         SubSeq(decoded.val, 33, 64),
                                         SubSeq(decoded.val, 65, SecretLen))
             IN  IF ~session_keys.ok
                 THEN [ret |-> "Err", enc_key |-> <<>>, mac_key |-> <<>>]
                 ELSE [ret |-> "Lock", enc_key |-> session_keys.enc_key,
                       mac_key |-> session_keys.mac_key]

ClConn(ret, msg) == [op |-> "handle_json_message", ret |-> ret, frame |-> <<>>, msg |-> msg]

\* handle_json_message for a message of type "Conn".  The handler holds the
\* guard of self.session while it calls process_secret, and process_secret
\* locks self.session again (lib.rs:501, 513, 591): a std Mutex locked twice by
\* one thread does not return from the second lock, it blocks or panics.  An
\* Err of the handler reaches on_error of the same handler or not, as the
\* socket library decides.
handle_json_message(msg) ==
    IF msg.clientToken = None \/ msg.serverToken = None
    THEN /\ cl_last' = ClConn("Ok", msg)
         /\ UNCHANGED <<client_token, server_token, se_last, session_is_some,
                        connection_state, event_queue, connect_pc>>
    ELSE /\ session_is_some' = TRUE
         /\ client_token' = msg.clientToken[1]
         /\ server_token' = msg.serverToken[1]
         /\ se_last' = [se_last EXCEPT !.op = "set_auth_tokens", !.ret = 0]
         /\ IF msg.secret = None
            THEN /\ event_queue' = Append(event_queue, Event("Authenticated", <<>>))
                 /\ connection_state' = "Connected"
                 /\ cl_last' = ClConn("Ok", msg)
                 /\ UNCHANGED connect_pc
            ELSE \E r \in {process_secret(msg.secret[1], our_private_key) :
                               our_private_key \in 1..MaxKeySeed} :
                       IF r.ret = "Err"
                       THEN /\ event_queue' \in {event_queue,
                                                 Append(event_queue, Event("Error", <<>>))}
                            /\ cl_last' = ClConn("Err", msg)
                            /\ UNCHANGED <<connection_state, connect_pc>>
                       ELSE /\ connect_pc' \in {"blocked", "panicked"}
                            /\ cl_last' = ClConn("Never", msg)
                            /\ UNCHANGED <<connection_state, event_queue>>

\* WsHandler::on_message with a text frame of type "Conn"
HandleConnMessage ==
    /\ connect_pc = "open"
    /\ Len(event_queue) < MaxEvents
    /\ \E msg \in ConnInputs : handle_json_message(msg)
    /\ UNCHANGED <<enc_key, mac_key, wid, push_name, is_logged_in, registration_id,
                   identity_key_pair, signed_pre_key, one_time_keys, next_pre_key_id,
                   sender, socket_out>>

----------------------------------------------------------------------------
(* Jid (lib.rs) and its way through the node codec *)

MakeJid(id, is_group, is_lid) == [id |-> id, is_group |-> is_group, is_lid |-> is_lid]

JidErr == [ok |-> FALSE, val |-> MakeJid(<<>>, FALSE, FALSE)]

\* Jid::to_string
Jid_to_string(j) ==
    IF j.is_lid THEN j.id \o <<AT_SIGN>> \o S_lid
    ELSE IF j.is_group THEN j.id \o <<AT_SIGN>> \o S_g_us
    ELSE j.id \o <<AT_SIGN>> \o S_s_whatsapp_net

\* Jid::from_string: split('@') gives two parts exactly when there is one '@'
Jid_from_string(jid_str) ==
    IF Cardinality({k \in DOMAIN jid_str : jid_str[k] = AT_SIGN}) # 1 THEN JidErr
    ELSE LET pos == FindAt(jid_str)
             id == SubSeq(jid_str, 1, pos)
             suffix == SubSeq(jid_str, pos + 2, Len(jid_str))
         IN  CASE suffix = S_s_whatsapp_net -> [ok |-> TRUE, val |-> MakeJid(id, FALSE, FALSE)]
               [] suffix = S_g_us -> [ok |-> TRUE, val |-> MakeJid(id, TRUE, FALSE)]
               [] suffix = S_lid -> [ok |-> TRUE, val |-> MakeJid(id, FALSE, TRUE)]
               [] OTHER -> JidErr

JidIdInputs == {S_abc, S_1234, S_foo, S_bar, S_1, S_id, S_empty}

\* a user, a group or a lid
JidInputs ==
    {MakeJid(id, FALSE, FALSE) : id \in JidIdInputs}
    \cup {MakeJid(id, TRUE, FALSE) : id \in JidIdInputs}
    \cup {MakeJid(id, FALSE, TRUE) : id \in JidIdInputs}

\* the text the decoder returns for the bytes the encoder wrote, parsed
ParseDecoded(w) ==
    IF ~w.ok THEN JidErr
    ELSE LET r == DecThen(read_byte(w.data, 0), LAMBDA t : read_string(w.data, t.index, t.val))
         IN  IF r.ok THEN Jid_from_string(r.val) ELSE JidErr

\* encoder.write_string(&j.to_string(), false), then read_string on the bytes
\* and Jid::from_string on the text
JidRoundTrip ==
    /\ \E j \in JidInputs :
          \E w \in {write_string(<<>>, Jid_to_string(j), FALSE)} :
              /\ enc_data' = w.data
              /\ enc_ret' = Ret(w)
              /\ co_last' = [op |-> "jid_round_trip", jid |-> j, text |-> Jid_to_string(j),
                             parsed |-> ParseDecoded(w)]
    /\ UNCHANGED <<dec_data, dec_index, dec_ret>>

\* Jid::from_string on a text
JidFromString ==
    /\ \E text \in StringInputs :
          co_last' = [op |-> "from_string", jid |-> Jid_from_string(text).val, text |-> text,
                      parsed |-> Jid_from_string(text)]
    /\ UNCHANGED <<enc_data, enc_ret, dec_data, dec_index, dec_ret>>

----------------------------------------------------------------------------
(* The connection thread statement by statement, with the application       *)
(* beside it.  The closure of ws::connect and the callbacks of WsHandler    *)
(* run on the thread connect spawned, one after the other; poll_event and   *)
(* get_state run on the application's thread at any time.  self.state is a  *)
(* Mutex and the channel is an mpsc channel, so each statement is atomic.   *)

\* every event waiting in the channel has seen a write of the state
AllMoved == [i \in DOMAIN ev_moved |-> TRUE]

ev_rest == <<enc_key, mac_key, wid, push_name, is_logged_in, registration_id,
             identity_key_pair, signed_pre_key, one_time_keys, next_pre_key_id>>

ev_session == <<client_token, server_token, se_last, session_is_some>>

\* connect: *state_clone.lock().unwrap() = ConnectionState::Connecting
EvConnectStoreConnecting ==
    /\ connect_pc = "idle"
    /\ connection_state' = "Connecting"
    /\ ev_moved' = AllMoved
    /\ connect_pc' = "connecting"
    /\ cl_last' = ClLast("connect", "Ok", <<>>)
    /\ UNCHANGED <<sender, socket_out, event_queue, ev_session, ev_rest>>

\* the closure of ws::connect: the sender and the state Authenticating are stored
EvOpenStoreAuthenticating ==
    /\ connect_pc = "connecting"
    /\ sender' = "Some"
    /\ connection_state' = "Authenticating"
    /\ ev_moved' = AllMoved
    /\ connect_pc' = "open_stored"
    /\ UNCHANGED <<socket_out, event_queue, cl_last, ev_session, ev_rest>>

\* the closure of ws::connect: event_tx.send(Event::Authenticating), out.send(init)
EvOpenSendAuthenticating ==
    /\ connect_pc = "open_stored"
    /\ Len(event_queue) < MaxEvents
    /\ event_queue' = Append(event_queue, Event("Authenticating", <<>>))
    /\ ev_moved' = Append(ev_moved, FALSE)
    /\ socket_out' = IF Len(socket_out) < MaxFrames THEN Append(socket_out, InitRequest)
                     ELSE socket_out
    /\ connect_pc' = "open"
    /\ cl_last' = ClLast("ws_connect", "Ok", <<>>)
    /\ UNCHANGED <<connection_state, sender, ev_session, ev_rest>>

\* handle_json_message for a Conn message with both tokens and no secret, up
\* to event_tx.send(Event::Authenticated)
EvConnSendAuthenticated ==
    /\ connect_pc = "open"
    /\ Len(event_queue) < MaxEvents
    /\ \E msg \in {m \in ConnInputs : m.serverToken # None /\ m.secret = None} :
          /\ session_is_some' = TRUE
          /\ client_token' = msg.clientToken[1]
          /\ server_token' = msg.serverToken[1]
          /\ se_last' = [se_last EXCEPT !.op = "set_auth_tokens", !.ret = 0]
    /\ event_queue' = Append(event_queue, Event("Authenticated", <<>>))
    /\ ev_moved' = Append(ev_moved, FALSE)
    /\ connect_pc' = "conn_sent"
    /\ UNCHANGED <<connection_state, sender, socket_out, cl_last, ev_rest>>

\* handle_json_message: *self.state.lock().unwrap() = ConnectionState::Connected
EvConnStoreConnected ==
    /\ connect_pc = "conn_sent"
    /\ connection_state' = "Connected"
    /\ ev_moved' = AllMoved
    /\ connect_pc' = "open"
    /\ cl_last' = ClLast("handle_json_message", "Ok", <<>>)
    /\ UNCHANGED <<sender, socket_out, event_queue, ev_session, ev_rest>>

\* on_close: *self.state.lock().unwrap() = ConnectionState::Disconnected
EvCloseStoreDisconnected ==
    /\ connect_pc = "open"
    /\ connection_state' = "Disconnected"
    /\ ev_moved' = AllMoved
    /\ connect_pc' = "close_stored"
    /\ UNCHANGED <<sender, socket_out, event_queue, cl_last, ev_session, ev_rest>>

\* on_close: self.event_tx.send(Event::Disconnected); the thread ends
EvCloseSendDisconnected ==
    /\ connect_pc = "close_stored"
    /\ Len(event_queue) < MaxEvents
    /\ event_queue' = Append(event_queue, Event("Disconnected", <<>>))
    /\ ev_moved' = Append(ev_moved, FALSE)
    /\ connect_pc' = "idle"
    /\ cl_last' = ClLast("on_close", "Ok", <<>>)
    /\ UNCHANGED <<connection_state, sender, socket_out, ev_session, ev_rest>>

\* the application: poll_event() returned an event and get_state() is called
EvPollAndGetState ==
    /\ event_queue # <<>>
    /\ event_queue' = Tail(event_queue)
    /\ ev_moved' = Tail(ev_moved)
    /\ cl_last' = [op |-> "poll_event", ret |-> "Ok", frame |-> <<>>,
                   event |-> Head(event_queue).kind,
                   get_state |-> connection_state,
                   moved |-> Head(ev_moved)]
    /\ UNCHANGED <<connection_state, sender, socket_out, connect_pc, ev_session, ev_rest>>

----------------------------------------------------------------------------
(* Error values (errors.rs:5-22, 46-56).  Every Err of the handshake       *)
(* engine, the codec, the crypto helpers and the sync manager is written    *)
(* "message".into(), which builds the error through From<&str>.             *)

ErrorKinds ==
    {"InvalidFormat", "ConnectionError", "AuthenticationError", "CryptoError",
     "InvalidPayload", "ProtocolError", "IOError", "Other"}

\* impl From<&str> for Error / impl From<String> for Error
ErrorFromStr(msg) == [kind |-> "Other", msg |-> msg]

\* the Err a NoiseHandler step returned (handshake_new.rs:90, 105, 179)
handshake_error(last) ==
    IF last.ret # "Err" THEN None
    ELSE IF last.op = "finalize_handshake"
         THEN Some(ErrorFromStr("Invalid handshake state for finalization"))
    ELSE IF last.pre # "ClientHelloSent"
         THEN Some(ErrorFromStr("Invalid handshake state"))
    ELSE Some(ErrorFromStr("Failed to compute shared secret"))

\* the Err a NodeDecoder call returned (node_protocol.rs:235, 273, 289, 304,
\* 315, 342, 348, 355, 364, 411, 418, 421, 473): each is a &str converted
\* by into(); the model keeps the kind, which is the same for all of them
decoder_error(last, ret) ==
    IF last.op \in {"decode_bytes", "read_node", "read_string"} /\ ~ret.ok
    THEN Some(ErrorFromStr("End of stream"))
    ELSE None

\* the Err handle_sync_response returned (appstate_sync.rs:170)
sync_error(last) ==
    IF last.op = "handle_sync_response" /\ last.ret = "Err"
    THEN Some(ErrorFromStr("Invalid patch MAC"))
    ELSE None

----------------------------------------------------------------------------

(* Specifications: one per component, over the common initial state *)

Init == InitHandshake /\ InitCodec /\ InitAppState /\ InitSession /\ InitClient

NextHandshake ==
    \/ StartHandshake /\ UNCHANGED <<co_vars, as_vars, se_vars, cl_vars>>
    \/ ProcessServerHello /\ UNCHANGED <<co_vars, as_vars, se_vars, cl_vars>>
    \/ FinalizeHandshake /\ UNCHANGED <<co_vars, as_vars, se_vars, cl_vars>>

SpecHandshake == Init /\ [][NextHandshake]_vars

NextCodec ==
    \/ WriteNode /\ UNCHANGED <<hs_vars, as_vars, se_vars, cl_vars>>
    \/ ReadNode /\ UNCHANGED <<hs_vars, as_vars, se_vars, cl_vars>>
    \/ DecodeBytes /\ UNCHANGED <<hs_vars, as_vars, se_vars, cl_vars>>
    \/ WriteString /\ UNCHANGED <<hs_vars, as_vars, se_vars, cl_vars>>
    \/ ReadString /\ UNCHANGED <<hs_vars, as_vars, se_vars, cl_vars>>
    \/ WriteListStart /\ UNCHANGED <<hs_vars, as_vars, se_vars, cl_vars>>
    \/ WriteByteLength /\ UNCHANGED <<hs_vars, as_vars, se_vars, cl_vars>>
    \/ NewCodec /\ UNCHANGED <<hs_vars, as_vars, se_vars, cl_vars>>

SpecCodec == Init /\ [][NextCodec]_vars

NextAppState ==
    \/ AddEntry /\ UNCHANGED <<hs_vars, co_vars, se_vars, cl_vars, as_aux>>
    \/ StorePatch /\ UNCHANGED <<hs_vars, co_vars, se_vars, cl_vars, as_aux>>
    \/ ApplyPatches /\ UNCHANGED <<hs_vars, co_vars, se_vars, cl_vars, as_aux>>

SpecAppState == Init /\ [][NextAppState]_vars

NextAppStateSync ==
    \/ HandleSyncResponse
          /\ UNCHANGED <<hs_vars, co_vars, se_vars, cl_vars, as_aux>>
    \/ RegisterAppStateKey
          /\ UNCHANGED <<hs_vars, co_vars, se_vars, cl_vars, as_aux>>
    \/ AddEntry /\ UNCHANGED <<hs_vars, co_vars, se_vars, cl_vars, as_aux>>

SpecAppStateSync == Init /\ [][NextAppStateSync]_vars

\* a writer that stores and applies patches, and a reader
NextAppStateReaders ==
    \/ WriterStorePatch
          /\ UNCHANGED <<hs_vars, co_vars, se_vars, cl_vars, pending_requests>>
    \/ ApplyBegin /\ UNCHANGED <<hs_vars, co_vars, se_vars, cl_vars, pending_requests>>
    \/ ApplyInsertState
          /\ UNCHANGED <<hs_vars, co_vars, se_vars, cl_vars, pending_requests>>
    \/ ApplyInsertVersion
          /\ UNCHANGED <<hs_vars, co_vars, se_vars, cl_vars, pending_requests>>
    \/ ApplyNextPatch
          /\ UNCHANGED <<hs_vars, co_vars, se_vars, cl_vars, pending_requests>>
    \/ ApplyEnd /\ UNCHANGED <<hs_vars, co_vars, se_vars, cl_vars, pending_requests>>
    \/ ReaderGet /\ UNCHANGED <<hs_vars, co_vars, se_vars, cl_vars, pending_requests>>

SpecAppStateReaders == Init /\ [][NextAppStateReaders]_vars

\* the requests of the sync manager and the type strings they are written with
NextSyncRequests ==
    \/ RequestSync /\ UNCHANGED <<hs_vars, co_vars, se_vars, cl_vars, ap_vars>>
    \/ TypeIntoString
          /\ UNCHANGED <<hs_vars, co_vars, se_vars, cl_vars, as_aux>>
    \/ TypeFromString
          /\ UNCHANGED <<hs_vars, co_vars, se_vars, cl_vars, as_aux>>

SpecSyncRequests == Init /\ [][NextSyncRequests]_vars

NextSession ==
    \/ UpdateEncryptionKeys /\ UNCHANGED <<noise_vars, co_vars, as_vars, cl_vars>>
    \/ SetAuthTokens /\ UNCHANGED <<noise_vars, co_vars, as_vars, cl_vars>>
    \/ SetUserIdentity /\ UNCHANGED <<noise_vars, co_vars, as_vars, cl_vars>>
    \/ AddOneTimeKey /\ UNCHANGED <<noise_vars, co_vars, as_vars, cl_vars>>
    \/ RemoveUsedKey /\ UNCHANGED <<noise_vars, co_vars, as_vars, cl_vars>>

SpecSession == Init /\ [][NextSession]_vars

\* the generators of registration ids
NextRegistration ==
    \/ NewSession /\ UNCHANGED <<noise_vars, co_vars, as_vars, cl_vars>>
    \/ GenerateRegistrationId /\ UNCHANGED <<noise_vars, co_vars, as_vars, cl_vars>>
    \/ MultiDeviceSessionDefault /\ UNCHANGED <<noise_vars, co_vars, as_vars, cl_vars>>

SpecRegistration == Init /\ [][NextRegistration]_vars

NextClient ==
    \/ ConnectSpawn /\ UNCHANGED <<hs_vars, co_vars, as_vars, se_vars, ev_moved>>
    \/ ConnectOpen /\ UNCHANGED <<hs_vars, co_vars, as_vars, se_vars, ev_moved>>
    \/ ConnectFailed /\ UNCHANGED <<hs_vars, co_vars, as_vars, se_vars, ev_moved>>
    \/ OnClose /\ UNCHANGED <<hs_vars, co_vars, as_vars, se_vars, ev_moved>>
    \/ Disconnect /\ UNCHANGED <<hs_vars, co_vars, as_vars, se_vars, ev_moved>>
    \/ SendWebMessage /\ UNCHANGED <<hs_vars, co_vars, as_vars, se_vars, ev_moved>>
    \/ HandleBinaryMessage /\ UNCHANGED <<hs_vars, co_vars, as_vars, se_vars, ev_moved>>
    \/ PollEvent /\ UNCHANGED <<hs_vars, co_vars, as_vars, se_vars, ev_moved>>
    \/ HandleConnMessage /\ UNCHANGED <<noise_vars, co_vars, as_vars, ev_moved>>

SpecClient == Init /\ [][NextClient]_vars

\* the connection thread and the application polling beside it
NextClientEvents ==
    \/ EvConnectStoreConnecting /\ UNCHANGED <<noise_vars, co_vars, as_vars>>
    \/ EvOpenStoreAuthenticating /\ UNCHANGED <<noise_vars, co_vars, as_vars>>
    \/ EvOpenSendAuthenticating /\ UNCHANGED <<noise_vars, co_vars, as_vars>>
    \/ EvConnSendAuthenticated /\ UNCHANGED <<noise_vars, co_vars, as_vars>>
    \/ EvConnStoreConnected /\ UNCHANGED <<noise_vars, co_vars, as_vars>>
    \/ EvCloseStoreDisconnected /\ UNCHANGED <<noise_vars, co_vars, as_vars>>
    \/ EvCloseSendDisconnected /\ UNCHANGED <<noise_vars, co_vars, as_vars>>
    \/ EvPollAndGetState /\ UNCHANGED <<noise_vars, co_vars, as_vars>>

SpecClientEvents == Init /\ [][NextClientEvents]_vars

\* the two codec files side by side
NextCodecVariants ==
    \/ WriteNodeBoth /\ UNCHANGED <<hs_vars, as_vars, se_vars, cl_vars>>
    \/ ReadNodeBoth /\ UNCHANGED <<hs_vars, as_vars, se_vars, cl_vars>>

SpecCodecVariants == Init /\ [][NextCodecVariants]_vars

\* Jid texts through the node codec
NextJid ==
    \/ JidRoundTrip /\ UNCHANGED <<hs_vars, as_vars, se_vars, cl_vars>>
    \/ JidFromString /\ UNCHANGED <<hs_vars, as_vars, se_vars, cl_vars>>

SpecJid == Init /\ [][NextJid]_vars

\* the message protection functions of the two crypto modules
NextMessageProtection ==
    \/ SignAndEncryptMessage /\ UNCHANGED <<hs_vars, co_vars, as_vars, se_vars, ev_moved>>
    \/ VerifyAndDecryptMessage /\ UNCHANGED <<hs_vars, co_vars, as_vars, se_vars, ev_moved>>
    \/ VerifyReceivedMessage /\ UNCHANGED <<hs_vars, co_vars, as_vars, se_vars, ev_moved>>

SpecMessageProtection == Init /\ [][NextMessageProtection]_vars

----------------------------------------------------------------------------
(* Claims about the handshake engine *)

Rank(st) ==
    CASE st = "Idle" -> 0
      [] st = "ClientHelloSent" -> 1
      [] st = "ServerHelloReceived" -> 2
      [] st = "HandshakeComplete" -> 3
      [] OTHER -> 4

\* C1: under any sequence of start_handshake, process_server_hello and
\* finalize_handshake calls the handshake state only moves forward along
\* Idle -> ClientHelloSent -> ServerHelloReceived -> HandshakeComplete, and no
\* other state is reached.
C1_ForwardOnly ==
    [][/\ Rank(handshake_state') >= Rank(handshake_state)
       /\ Rank(handshake_state') <= 3]_vars

\* C2: process_server_hello in state Idle, and finalize_handshake in state Idle
\* or ClientHelloSent, return an error and leave the handshake state unchanged.
C2_OrderingErrors ==
    /\ (hs_last.op = "process_server_hello" /\ hs_last.pre = "Idle")
          => (hs_last.ret = "Err" /\ handshake_state = hs_last.pre)
    /\ (hs_last.op = "finalize_handshake" /\ hs_last.pre \in {"Idle", "ClientHelloSent"})
          => (hs_last.ret = "Err" /\ handshake_state = hs_last.pre)

C2_Witness ==
    /\ hs_last.op = "process_server_hello"
    /\ hs_last.pre = "Idle"
    /\ hs_last.ret = "Err"

\* C3: each handshake step succeeds only in its required state: start_handshake
\* outside Idle, process_server_hello outside ClientHelloSent and
\* finalize_handshake outside ServerHelloReceived each return an error.
C3_StepOnlyInItsState ==
    /\ (hs_last.op = "start_handshake" /\ hs_last.pre # "Idle")
          => hs_last.ret = "Err"
    /\ (hs_last.op = "process_server_hello" /\ hs_last.pre # "ClientHelloSent")
          => hs_last.ret = "Err"
    /\ (hs_last.op = "finalize_handshake" /\ hs_last.pre # "ServerHelloReceived")
          => hs_last.ret = "Err"

\* C4: after a successful finalize_handshake(shared_keys) the session key store
\* holds encryption_key = shared_keys[0..32] and mac_key = shared_keys[32..64].
C4_KeysInStore ==
    (hs_last.op = "finalize_handshake" /\ hs_last.ret = "Ok")
        => /\ Len(hs_last.arg) >= 2 * KeyLen
           /\ enc_key = SubSeq(hs_last.arg, 1, KeyLen)
           /\ mac_key = SubSeq(hs_last.arg, KeyLen + 1, 2 * KeyLen)

\* C5: finalize_handshake in state ServerHelloReceived with shared_keys shorter
\* than 64 bytes returns an error and the state does not become HandshakeComplete.
C5_ShortKeysRejected ==
    (/\ hs_last.op = "finalize_handshake"
     /\ hs_last.pre = "ServerHelloReceived"
     /\ Len(hs_last.arg) < 2 * KeyLen)
        => (hs_last.ret = "Err" /\ handshake_state # "HandshakeComplete")

\* C20: start_handshake returns 33 bytes, 0x01 and then the public half of the
\* engine's ephemeral key, the key process_server_hello later agrees with; a
\* successful process_server_hello returns 0x02, then the client's 32-byte
\* static public key, then the encrypted payload.
C20_HandshakeMessages ==
    [][/\ ephemeral_key_pair' = ephemeral_key_pair
       /\ hs_last'.op = "start_handshake"
             => /\ hs_last'.ret = "Ok"
                /\ Len(hs_last'.out) = 33
                /\ hs_last'.out[1] = 1
                /\ SubSeq(hs_last'.out, 2, 33) = compute_public_key(ephemeral_key_pair')
       /\ (hs_last'.op = "process_server_hello" /\ hs_last'.ret = "Ok")
             => /\ Len(hs_last'.out) >= 33
                /\ hs_last'.out[1] = 2
                /\ SubSeq(hs_last'.out, 2, 33) = static_public_key
                /\ Len(static_public_key) = 32
                /\ \E secret \in {agree_ephemeral(ephemeral_key_pair,
                                                   SubSeq(hs_last'.arg, 1, KeyLen))} :
                      /\ secret.ok
                      /\ SubSeq(hs_last'.out, 34, Len(hs_last'.out))
                            = encrypt_payload(build_client_payload, secret.secret)]_vars

C20_Witness ==
    /\ hs_last.op = "process_server_hello"
    /\ hs_last.ret = "Ok"
    /\ hs_last.out = <<2>> \o static_public_key

\* C36: HandshakeComplete is reachable only through a process_server_hello
\* call that returned Ok: if process_server_hello passes its state check but
\* then returns an error (for example the key agreement fails), the state is
\* still ClientHelloSent and a following finalize_handshake returns an error.
C36_FailedServerHelloStaysPut ==
    [][/\ (/\ hs_last'.op = "process_server_hello"
           /\ hs_last'.pre = "ClientHelloSent"
           /\ hs_last'.ret = "Err") => handshake_state' = "ClientHelloSent"
       /\ (/\ hs_last.op = "process_server_hello"
           /\ hs_last.ret = "Err"
           /\ hs_last'.op = "finalize_handshake") =>
             (hs_last'.ret = "Err" /\ handshake_state' # "HandshakeComplete")]_vars

----------------------------------------------------------------------------
(* Claims about the node codec *)

\* the documented legacy rewrite: a JID with server s.whatsapp.net comes back
\* with server c.us
Legacy(s) ==
    IF FindAt(s) >= 0 /\ SubSeq(s, FindAt(s) + 2, Len(s)) = S_s_whatsapp_net
    THEN SubSeq(s, 1, FindAt(s) + 1) \o S_c_us
    ELSE s

RECURSIVE LegacyNode(_)
LegacyNode(node) ==
    [tag |-> Legacy(node.tag),
     attrs |-> [k \in DOMAIN node.attrs |-> Legacy(node.attrs[k])],
     content |->
        CASE node.content.kind = "Text" -> Text(Legacy(node.content.v))
          [] node.content.kind = "List" ->
                List([i \in 1..Len(node.content.v) |-> LegacyNode(node.content.v[i])])
          [] OTHER -> node.content]

\* C6: for every node built from token-table or ASCII strings, write_node
\* succeeds and read_node of the bytes written returns the original node, up to
\* the rewrite of a JID server s.whatsapp.net to c.us.
C6_RoundTrip ==
    /\ co_last.op = "write_node" => enc_ret = "Ok"
    /\ co_last.op = "read_node" => (dec_ret.ok /\ dec_ret.val = LegacyNode(co_last.node))

\* C7: encoding "1234@s.whatsapp.net" and decoding the bytes yields "1234@c.us";
\* encoding "abc@g.us" and decoding yields "abc@g.us".
C7_JidRoundTrip ==
    \A s \in {S_1234_at_s_whatsapp_net, S_abc_at_g_us} :
        /\ (co_last.op = "write_string" /\ co_last.str = s) => enc_ret = "Ok"
        /\ (co_last.op = "read_string" /\ co_last.str = s)
              => (dec_ret.ok /\ dec_ret.val = Legacy(s))

\* the headers as the framing rules state them, for a count or length n = hi * 2^16 + lo;
\* a list header has room for the low 16 bits of the count only
ListHeader(n) ==
    IF n.hi = 0 /\ n.lo = 0 THEN <<LIST_EMPTY>>
    ELSE IF n.hi = 0 /\ n.lo <= 255 THEN <<LIST_8, n.lo>>
    ELSE <<LIST_16, (n.lo \div 256) % 256, n.lo % 256>>

LengthHeader(n) ==
    IF n.hi = 0 /\ n.lo <= 255 THEN <<BINARY_8, n.lo>>
    ELSE IF n.hi <= 15 THEN <<BINARY_20, n.hi, n.lo \div 256, n.lo % 256>>
    ELSE <<BINARY_32, n.hi \div 256, n.hi % 256, n.lo \div 256, n.lo % 256>>

\* whether t is the tail of s
EndsWith(s, t) == Len(s) >= Len(t) /\ SubSeq(s, Len(s) - Len(t) + 1, Len(s)) = t

ChildCount(node) ==
    1 + 2 * Cardinality(DOMAIN node.attrs) + (IF node.content.kind = "None" THEN 0 ELSE 1)

\* the count a buffer's leading list header declares
DeclaredCount(data) ==
    IF data[1] = LIST_8 THEN data[2] ELSE data[2] * 256 + data[3]

\* C9: write_node emits a list header whose count is 1 + 2*|attributes| + (1 if
\* content is present), even exactly when content is present; a read_node that
\* returns a node has read the count of the buffer's header, (count-1)/2
\* attribute pairs, and content exactly when that count is even.
C9_ChildCountParity ==
    /\ co_last.op \in {"write_node", "read_node"}
          => /\ SubSeq(enc_data, 1, Len(ListHeader(Wide(ChildCount(co_last.node)))))
                   = ListHeader(Wide(ChildCount(co_last.node)))
             /\ (ChildCount(co_last.node) % 2 = 0) <=> (co_last.node.content.kind # "None")
    /\ (co_last.op \in {"read_node", "decode_bytes"} /\ dec_ret.ok)
          => /\ dec_ret.list_size = DeclaredCount(dec_data)
             /\ dec_ret.num_attrs = (dec_ret.list_size - 1) \div 2
             /\ Cardinality(DOMAIN dec_ret.val.attrs) <= dec_ret.num_attrs
             /\ (dec_ret.val.content.kind # "None") <=> (dec_ret.list_size % 2 = 0)
    /\ co_last.op = "read_node"
          => /\ dec_ret.ok
             /\ dec_index = Len(dec_data)
             /\ dec_ret.list_size = ChildCount(co_last.node)
             /\ Cardinality(DOMAIN dec_ret.val.attrs) = Cardinality(DOMAIN co_last.node.attrs)
             /\ (dec_ret.val.content.kind # "None") <=> (co_last.node.content.kind # "None")

C9_Witness ==
    /\ co_last.op = "read_node"
    /\ dec_ret.ok
    /\ dec_ret.list_size = 4
    /\ Cardinality(DOMAIN dec_ret.val.attrs) = 1
    /\ dec_ret.val.content.kind = "Binary"

\* C27: a list whose child count exceeds 65535 is not encodable: the encoder
\* returns an error rather than writing a list header whose 2-byte count
\* differs from the number of children that follow.
C27_OversizedListRejected ==
    (co_last.op = "write_list_start" /\ co_last.size.hi > 0)
        => (enc_ret = "Err" /\ enc_data = <<>>)

\* a buffer that ends before what it declares is there: a proper prefix of a
\* buffer that decodes to a node with nothing left over
Truncated(bytes) ==
    \E whole \in WireInputs :
        /\ Len(bytes) < Len(whole)
        /\ SubSeq(whole, 1, Len(bytes)) = bytes
        /\ \E r \in {read_node(whole, 0)} : r.ok /\ r.index = Len(whole)

\* C28: decoding a buffer that ends before a declared list count, string
\* length, blob length or packed-string length is satisfied returns an error on
\* every decode path: the decoder's index never exceeds the buffer length and
\* no node built from partial data is returned.
C28_TruncatedInputRejected ==
    /\ dec_index <= Len(dec_data)
    /\ (co_last.op = "decode_bytes" /\ Truncated(dec_data)) => ~dec_ret.ok

\* C31: encoding the string "c.us" and encoding the string "s.whatsapp.net"
\* emit the same single token byte, and that byte decodes as "c.us".
C31_AliasSharesOneToken ==
    \A s \in {S_c_us, S_s_whatsapp_net} :
        /\ (co_last.op \in {"write_string", "read_string"} /\ co_last.str = s) =>
              /\ enc_ret = "Ok"
              /\ Len(enc_data) = 1
              /\ \A t \in {S_c_us, S_s_whatsapp_net} :
                    \E r \in {write_string(<<>>, t, FALSE)} : r.ok /\ r.data = enc_data
        /\ (co_last.op = "read_string" /\ co_last.str = s) =>
              (dec_ret.ok /\ dec_ret.val = S_c_us)

\* C33: encoder and decoder agree on the byte-to-token mapping: for every
\* non-empty string t of the token table other than s.whatsapp.net, the
\* encoder writes t as a single byte b with 3 <= b < 236, and the decoder
\* maps that byte b back to t.
C33_TokenBytesAgree ==
    (co_last.str \in TokenStrings \ {S_s_whatsapp_net}) =>
        /\ co_last.op \in {"write_string", "read_string"} =>
              /\ enc_ret = "Ok"
              /\ Len(enc_data) = 1
              /\ enc_data[1] >= 3
              /\ enc_data[1] < DICTIONARY_0
        /\ co_last.op = "read_string" => (dec_ret.ok /\ dec_ret.val = co_last.str)

\* the two halves of the JID pair that is the tag of a one-element node in
\* the buffer d, as read_string reads them
JidHalves(d) ==
    LET left == DecThen(read_byte(d, 3), LAMBDA t : read_string(d, t.index, t.val))
        right == DecThen(read_byte(d, left.index), LAMBDA t : read_string(d, t.index, t.val))
    IN  [ok |-> left.ok /\ right.ok, left |-> left.val, right |-> right.val]

\* a JID pair read from the line is rejected only when both halves are empty
JidPairRejectedOnlyWhenEmpty ==
    (/\ co_last.op = "decode_bytes"
     /\ Len(dec_data) > 3
     /\ SubSeq(dec_data, 1, 3) = <<LIST_8, 1, JID_PAIR>>
     /\ JidHalves(dec_data).ok) =>
       (dec_ret.ok <=> ~(JidHalves(dec_data).left = <<>> /\ JidHalves(dec_data).right = <<>>))

\* C34: a JID with an empty user half ("@<server>") is encoded as JID_PAIR,
\* then the empty-list marker byte, then the encoded server, and decoding
\* those bytes succeeds and returns "@<server>" again; the decoder rejects a
\* JID pair only when user and server are both empty.
C34_EmptyUserJid ==
    /\ \A server \in {S_g_us, S_lid} :
          /\ (co_last.op \in {"write_string", "read_string"}
                /\ co_last.str = <<AT_SIGN>> \o server) =>
                /\ enc_ret = "Ok"
                /\ \E r \in {write_string(<<JID_PAIR, LIST_EMPTY>>, server, FALSE)} :
                      r.ok /\ enc_data = r.data
          /\ (co_last.op = "read_string" /\ co_last.str = <<AT_SIGN>> \o server) =>
                (dec_ret.ok /\ dec_ret.val = co_last.str)
    /\ JidPairRejectedOnlyWhenEmpty

----------------------------------------------------------------------------
(* Claims about AppStateManager *)

\* C10: get_current_version(name) never decreases across store_patch and
\* apply_patches: once a collection is at version 2, storing and applying a
\* patch with version 1 for it is rejected and its version remains 2.
C10_VersionMonotone ==
    [][as_last'.op \in {"store_patch", "apply_patches"} =>
          \A name \in DOMAIN current_state :
              /\ name \in DOMAIN current_state'
              /\ current_state'[name] >= current_state[name]]_vars

\* whether a patch has an entry for name
Touches(patch, name) == \E i \in DOMAIN patch.patches : patch.patches[i].name = name

\* whether a collection is the same before and after a step
SameCollection(name) ==
    /\ (name \in DOMAIN state) <=> (name \in DOMAIN state')
    /\ name \in DOMAIN state => state'[name] = state[name]
    /\ (name \in DOMAIN current_state) <=> (name \in DOMAIN current_state')
    /\ name \in DOMAIN current_state => current_state'[name] = current_state[name]

\* C11: apply_patches merges the entries of a buffered patch only if
\* verify_patch_mac succeeds for it: a collection that only patches with a
\* failing MAC touch is the same in state and current_state afterwards.
C11_FailedMacNotMerged ==
    [][as_last'.op = "apply_patches" =>
          \A name \in CollectionNames :
              (\A k \in DOMAIN pending_patches :
                    Touches(pending_patches[k], name) => ~verify_patch_mac(pending_patches[k]))
                 => SameCollection(name)]_vars

\* whether every entry of a patch is newer than what is stored for its name
StrictlyNewer(patch) ==
    \A i \in DOMAIN patch.patches :
        patch.patches[i].name \in DOMAIN current_state
            => patch.patches[i].version > current_state[patch.patches[i].name]

\* C12: acceptance is all-or-nothing per patch: applying a single buffered
\* patch with at least one entry whose version is not strictly greater than the
\* stored version of its name leaves every collection the patch touches
\* unchanged.
C12_AllOrNothing ==
    [][(as_last'.op = "apply_patches" /\ Len(pending_patches) = 1
            /\ ~StrictlyNewer(pending_patches[1])) =>
          \A name \in CollectionNames :
              Touches(pending_patches[1], name) => SameCollection(name)]_vars

\* the number of patches of a batch that pass verify_patch_mac
RECURSIVE CountVerified(_, _)
CountVerified(patches, k) ==
    IF k > Len(patches) THEN 0
    ELSE (IF verify_patch_mac(patches[k]) THEN 1 ELSE 0) + CountVerified(patches, k + 1)

\* C13: a rejected patch affects only itself: after handle_sync_response every
\* patch of the response that verifies has been attempted (the version counts
\* each of them), wherever the rejected patches stand in the batch.
C13_OthersStillAttempted ==
    as_last.op = "handle_sync_response"
        => version = as_last.version + CountVerified(as_last.patches, 1)

\* C14: for a buffered patch for which verify_patch_mac returns true, changing
\* any single byte of its patch_mac makes verify_patch_mac return false.
C14_MacByteFlipDetected ==
    \A k \in DOMAIN pending_patches :
        verify_patch_mac(pending_patches[k])
            => \A i \in DOMAIN pending_patches[k].patch_mac :
                  \A b \in (0..255) \ {pending_patches[k].patch_mac[i]} :
                      ~verify_patch_mac([pending_patches[k] EXCEPT !.patch_mac[i] = b])

\* C25: store_patch only buffers: it appends the patch to pending_patches and
\* leaves state, current_state, keys and version unchanged, whatever the
\* patch contains; the entries of the buffered patches are visible through
\* get_entry and get_current_version after apply_patches.
C25_StorePatchOnlyBuffers ==
    [][/\ as_last'.op = "store_patch" =>
             /\ \/ pending_patches' = pending_patches
                \/ \E patch \in PatchInputs :
                      pending_patches' = Append(pending_patches, patch)
             /\ state' = state
             /\ current_state' = current_state
             /\ keys' = keys
             /\ version' = version
       /\ as_last'.op = "apply_patches" =>
             \A i \in 1..Len(pending_patches) :
                \A j \in 1..Len(pending_patches[i].patches) :
                   /\ pending_patches[i].patches[j].name \in DOMAIN state'
                   /\ pending_patches[i].patches[j].name \in DOMAIN current_state'
      ]_vars

\* a patch is buffered and an entry of it is not visible yet
C25_Witness ==
    /\ as_last.op = "store_patch"
    /\ pending_patches # <<>>
    /\ \E j \in 1..Len(pending_patches[1].patches) :
          /\ get_entry(pending_patches[1].patches[j].name) = None
          /\ get_current_version(pending_patches[1].patches[j].name) = None

\* C30: after add_entry(e), get_current_version(e.name) is Some(e.version) and
\* get_entry(e.name) is e, and the manager holds exactly one entry per
\* distinct name; after any sequence of add_entry, store_patch and
\* apply_patches, state and current_state have the same set of names and
\* current_state[name] equals state[name].version for each.
C30_EntryAndVersionAgree ==
    /\ as_last.op = "add_entry" =>
          /\ get_current_version(as_last.entry.name) = Some(as_last.entry.version)
          /\ get_entry(as_last.entry.name) = Some(as_last.entry)
    /\ \A name \in DOMAIN state : state[name].name = name
    /\ DOMAIN state = DOMAIN current_state
    /\ \A name \in DOMAIN state : current_state[name] = state[name].version

\* an entry was added over an applied patch's entry of the same name
C30_Witness ==
    /\ as_last.op = "add_entry"
    /\ DOMAIN state = CollectionNames
    /\ \E name \in CollectionNames :
          /\ name # as_last.entry.name
          /\ state[name].data # as_last.entry.data
          /\ state[name].version # as_last.entry.version

RECURSIVE EntriesInOrder(_)
EntriesInOrder(patches) ==
    IF patches = <<>> THEN <<>>
    ELSE patches[1].patches \o EntriesInOrder(Tail(patches))

\* the last entry in the list for a name
LastEntryFor(entries, name) ==
    entries[CHOOSE i \in DOMAIN entries :
               /\ entries[i].name = name
               /\ \A j \in DOMAIN entries : (j > i) => entries[j].name # name]

EntryNames(entries) == {entries[i].name : i \in DOMAIN entries}

\* C35: apply_patches consumes the buffer: when it returns, pending_patches is
\* empty, every patch stored before the call has been processed exactly once
\* (each collection holds the last entry the buffered patches carry for it,
\* the others are as before), and a second apply_patches with no store_patch
\* in between changes nothing.
C35_ApplyConsumesBuffer ==
    [][as_last'.op = "apply_patches" =>
          /\ pending_patches' = <<>>
          /\ as_last'.drained = Len(pending_patches)
          /\ DOMAIN state' = DOMAIN state \cup EntryNames(EntriesInOrder(pending_patches))
          /\ \A name \in DOMAIN state' :
                state'[name] =
                    IF name \in EntryNames(EntriesInOrder(pending_patches))
                    THEN LastEntryFor(EntriesInOrder(pending_patches), name)
                    ELSE state[name]
          /\ (pending_patches = <<>> =>
                /\ state' = state
                /\ current_state' = current_state
                /\ keys' = keys
                /\ version' = version)]_vars

\* apply_patches has merged two buffered patches, and nothing is left
C35_Witness ==
    /\ as_last.op = "apply_patches"
    /\ as_last.drained = 2
    /\ pending_patches = <<>>
    /\ DOMAIN state = CollectionNames

\* apply_patches has run on the empty buffer over a state that earlier
\* patches filled
C35_SecondApply ==
    /\ as_last.op = "apply_patches"
    /\ as_last.drained = 0
    /\ DOMAIN state = CollectionNames

----------------------------------------------------------------------------
(* Claims about the Session store *)

\* C15: from a fresh Session, successive add_one_time_key calls return strictly
\* increasing ids beginning at 1; each returned id is inserted into
\* one_time_keys with key_id equal to its map key; no id is returned twice, even
\* after remove_used_key; every id in one_time_keys is smaller than
\* next_pre_key_id.
C15_OneTimeKeyIds ==
    [][/\ se_last'.op = "add_one_time_key"
             => /\ se_last'.ret = next_pre_key_id
                /\ next_pre_key_id' = se_last'.ret + 1
                /\ se_last'.ret \notin DOMAIN one_time_keys \cup se_last.removed
                /\ \A k \in DOMAIN one_time_keys : k < se_last'.ret
                /\ se_last'.ret \in DOMAIN one_time_keys'
                /\ se_last.op = "new" => se_last'.ret = 1
       /\ next_pre_key_id' >= next_pre_key_id
       /\ \A k \in DOMAIN one_time_keys' :
             /\ one_time_keys'[k].key_id = k
             /\ 1 <= k /\ k < next_pre_key_id']_vars

C15_Witness ==
    /\ se_last.op = "add_one_time_key"
    /\ se_last.ret = 3
    /\ se_last.removed = {1}
    /\ DOMAIN one_time_keys = {2, 3}

\* C16: remove_used_key(id) leaves id absent from one_time_keys and every
\* other key untouched; for an absent id it changes nothing; an id once
\* removed never appears in one_time_keys or get_available_one_time_keys again.
C16_RemovedKeysStayRemoved ==
    [][/\ se_last'.op = "remove_used_key"
             => /\ se_last'.ret \notin DOMAIN one_time_keys'
                /\ DOMAIN one_time_keys' = DOMAIN one_time_keys \ {se_last'.ret}
                /\ \A k \in DOMAIN one_time_keys' : one_time_keys'[k] = one_time_keys[k]
                /\ se_last'.ret \notin DOMAIN one_time_keys
                      => /\ one_time_keys' = one_time_keys
                         /\ next_pre_key_id' = next_pre_key_id
       /\ se_last'.removed \cap DOMAIN one_time_keys' = {}
       /\ \A key \in get_available_one_time_keys' : key.key_id \notin se_last'.removed]_vars

C16_Witness ==
    /\ se_last.op = "add_one_time_key"
    /\ se_last.removed = {1, 2}
    /\ DOMAIN one_time_keys = {3}

\* C17: is_valid() is true only when both negotiated keys are present and 32
\* bytes: a session whose keys update_encryption_keys has never set is not
\* valid, whatever set_auth_tokens and set_user_identity calls were made.
C17_ValidOnlyWithNegotiatedKeys ==
    is_valid => se_last.keyed

\* C18: every registration id the program generates fits in 14 bits: the
\* result of crypto_multi_device::generate_registration_id, the registration_id
\* of Session::new and that of MultiDeviceSession::default.
C18_RegistrationIdIn14Bits ==
    /\ 0 <= registration_id /\ registration_id <= 16383
    /\ se_last.op \in {"new", "generate_registration_id", "multi_device_session_default"}
          => (0 <= se_last.ret /\ se_last.ret <= 16383)

\* C24: update_encryption_keys is the only operation that changes the
\* negotiated keys: set_auth_tokens, set_user_identity, add_one_time_key and
\* remove_used_key leave enc_key and mac_key as Session::new or the last
\* update_encryption_keys left them, and update_encryption_keys leaves the
\* identity key pair, the signed pre-key, the one-time keys, the registration
\* id and the auth tokens unchanged.
C24_OnlyUpdateChangesKeys ==
    [][/\ se_last'.op # "update_encryption_keys"
            => (enc_key' = enc_key /\ mac_key' = mac_key)
       /\ se_last'.op = "update_encryption_keys"
            => /\ identity_key_pair' = identity_key_pair
               /\ signed_pre_key' = signed_pre_key
               /\ one_time_keys' = one_time_keys
               /\ registration_id' = registration_id
               /\ client_token' = client_token
               /\ server_token' = server_token]_vars

C24_Witness ==
    /\ se_last.op = "set_auth_tokens"
    /\ se_last.keyed
    /\ enc_key # ZeroKey
    /\ mac_key # ZeroKey
    /\ client_token # ""
    /\ one_time_keys # EmptyMap

----------------------------------------------------------------------------
(* Claims about the client *)

\* C19: once the session keys are established, every node the client sends is
\* signed with mac_key before it is handed to the socket, and every inbound
\* binary frame is MAC-verified before it is decoded: a frame that fails
\* verification never produces a MessageReceived event.
C19_FramesAuthenticated ==
    [][session_is_some =>
          /\ (cl_last'.op = "send_web_message" /\ cl_last'.ret = "Ok")
                => verify_and_decrypt_message(enc_key, mac_key, cl_last'.frame).ok
          /\ (/\ cl_last'.op = "handle_binary_message"
              /\ Len(event_queue') > Len(event_queue)
              /\ event_queue'[Len(event_queue')].kind = "MessageReceived")
                => verify_and_decrypt_message(enc_key, mac_key, cl_last'.frame).ok]_vars
\* whether the first 32 bytes of the input are the HMAC under the call's
\* mac_key of the bytes after them
CarriesItsHmac(last) ==
    /\ Len(last.arg) >= 32
    /\ SubSeq(last.arg, 1, 32) = hmac_sha256(last.m_key, SubSeq(last.arg, 33, Len(last.arg)))

\* C32: for every enc_key, mac_key and message m,
\* verify_and_decrypt_message(enc_key, mac_key,
\* sign_and_encrypt_message(enc_key, mac_key, m)) returns m; and for every
\* input that is shorter than 32 bytes or whose first 32 bytes are not the
\* HMAC under mac_key of the remaining bytes, verify_and_decrypt_message
\* returns an error without invoking decryption.
C32_SignedRoundTripAndReject ==
    /\ cl_last.op = "verify_and_decrypt_message" =>
          (cl_last.ret.ok /\ cl_last.ret.val = cl_last.sent[1])
    /\ (cl_last.op \in {"verify_and_decrypt_message", "verify_received"}
          /\ ~CarriesItsHmac(cl_last)) =>
          (~cl_last.ret.ok /\ ~cl_last.ret.decrypted)

\* the same for the functions of crypto.rs alone
MessageProtectionOfCrypto ==
    (cl_last.op \in {"verify_and_decrypt_message", "verify_received"}
       /\ cl_last.variant = "crypto") => C32_SignedRoundTripAndReject

\* the keys process_secret derives from the secret of a Conn message, for
\* each private key generate_keypair may draw
DerivedFrom(msg) ==
    {process_secret(msg.secret[1], our_private_key) : our_private_key \in 1..MaxKeySeed}

\* a Conn message with both tokens and a secret from which keys are derived
ValidSecret(msg) ==
    /\ msg.clientToken # None
    /\ msg.serverToken # None
    /\ msg.secret # None
    /\ \A r \in DerivedFrom(msg) : r.ret = "Lock"

\* C37: handling a Conn message that carries a valid secret terminates: the
\* handler takes the session lock, stores the auth tokens and the derived
\* keys, releases the lock, emits Authenticated and sets the connection
\* state to Connected; it never waits for a lock that the same thread
\* already holds.
C37_ValidSecretIsHandled ==
    [][(cl_last'.op = "handle_json_message" /\ ValidSecret(cl_last'.msg)) =>
          /\ cl_last'.ret = "Ok"
          /\ connect_pc' \notin {"blocked", "panicked"}
          /\ client_token' = cl_last'.msg.clientToken[1]
          /\ server_token' = cl_last'.msg.serverToken[1]
          /\ \E r \in DerivedFrom(cl_last'.msg) :
                enc_key' = r.enc_key /\ mac_key' = r.mac_key
          /\ event_queue' = Append(event_queue, Event("Authenticated", <<>>))
          /\ connection_state' = "Connected"]_vars

\* the state an event announces
StateOf(kind) ==
    CASE kind = "Authenticating" -> "Authenticating"
      [] kind = "Authenticated" -> "Connected"
      [] kind = "Disconnected" -> "Disconnected"

\* C38: events are published only after the shared connection state has been
\* updated: whenever the application receives Event::Authenticating,
\* Event::Authenticated or Event::Disconnected from poll_event, a get_state()
\* call made at that moment already returns Authenticating, Connected or
\* Disconnected respectively (unless a later transition has happened).
C38_StateBeforeEvent ==
    (/\ cl_last.op = "poll_event"
     /\ "event" \in DOMAIN cl_last
     /\ cl_last.event \in {"Authenticating", "Authenticated", "Disconnected"}) =>
       (cl_last.get_state = StateOf(cl_last.event) \/ cl_last.moved)

\* the same for the two events the connection thread sends after its write
StateBeforeEventOfOpenAndClose ==
    (/\ cl_last.op = "poll_event"
     /\ "event" \in DOMAIN cl_last
     /\ cl_last.event \in {"Authenticating", "Disconnected"}) =>
       (cl_last.get_state = StateOf(cl_last.event) \/ cl_last.moved)

\* C39: the receive path can parse the JIDs the send path emits: for every
\* Jid j (user, group or lid), the text obtained by encoding j.to_string()
\* with the node encoder and decoding it again is accepted by
\* Jid::from_string and yields a Jid equal to j.
C39_JidSurvivesTheCodec ==
    co_last.op = "jid_round_trip" =>
        co_last.parsed = [ok |-> TRUE, val |-> co_last.jid]

\* a lid Jid whose identifier is not empty and not a word of the token table
\* comes back as it was sent
LidJidSurvivesTheCodec ==
    (/\ co_last.op = "jid_round_trip"
     /\ co_last.jid.is_lid
     /\ co_last.jid.id # <<>>
     /\ TokenPosition(co_last.jid.id) < 0) =>
        co_last.parsed = [ok |-> TRUE, val |-> co_last.jid]

\* no user Jid and no group Jid is written at all
UserAndGroupJidNotEncoded ==
    (/\ co_last.op = "jid_round_trip"
     /\ ~co_last.jid.is_lid) => enc_ret = "Err"

\* Jid::from_string undoes Jid::to_string on a text that carries no '@' of its own
FromStringUndoesToString ==
    \A j \in JidInputs :
        Jid_from_string(Jid_to_string(j)) = [ok |-> TRUE, val |-> j]

\* the two write_node calls ended alike: both Err, or both Ok with the same bytes
EncodersAgree ==
    co_last.op = "write_node_both" =>
        /\ enc_ret = co_last.new_ret
        /\ enc_ret = "Ok" => enc_data = co_last.new_data

\* the two read_node calls ended alike: both failed, or both returned the same node
DecodersAgree ==
    co_last.op = "read_node_both" =>
        /\ co_last.old.ok = co_last.new.ok
        /\ co_last.old.ok => co_last.old.val = co_last.new.val

\* C40: the two codec variants are interchangeable: for every Node,
\* NodeEncoder::write_node of node_protocol.rs and of node_protocol_new.rs
\* produce the same bytes, and for every byte string the two
\* NodeDecoder::read_node either both fail or both return the same node.
C40_CodecVariantsInterchangeable == EncodersAgree /\ DecodersAgree

\* a node without the word "c.us" is written alike by the two encoders
EncodersAgreeWithoutAlias ==
    (/\ co_last.op = "write_node_both"
     /\ co_last.node.tag # S_c_us
     /\ co_last.node.content # Text(S_c_us)
     /\ \A k \in DOMAIN co_last.node.attrs :
            co_last.node.attrs[k] \notin {S_c_us, S_1234_at_c_us}) =>
        /\ enc_ret = co_last.new_ret
        /\ enc_ret = "Ok" => enc_data = co_last.new_data

\* whatever node_protocol_new.rs decodes, node_protocol.rs decodes to the same node
NewDecoderRefinesOld ==
    (co_last.op = "read_node_both" /\ co_last.new.ok) =>
        co_last.old = [ok |-> TRUE, val |-> co_last.new.val]

----------------------------------------------------------------------------
(* Claims about error reporting *)

\* C21: failures carry distinct error kinds: a handshake step invoked out of
\* its required state is reported as a protocol error, a codec failure as a
\* format error and a MAC mismatch as a crypto error; none of them is
\* reported as the generic kind Other.
C21_DistinctErrorKinds ==
    /\ \A e \in {handshake_error(hs_last)} :
          (e # None /\ hs_last.pre # (IF hs_last.op = "finalize_handshake"
                                      THEN "ServerHelloReceived"
                                      ELSE "ClientHelloSent"))
             => e[1].kind = "ProtocolError"
    /\ \A e \in {decoder_error(co_last, dec_ret)} :
          e # None => e[1].kind = "InvalidFormat"
    /\ \A e \in {sync_error(as_last)} :
          e # None => e[1].kind = "CryptoError"

----------------------------------------------------------------------------
(* Claims about AppStateSyncManager and AppStateType *)

\* C22: request_sync(types) emits one sync request per requested type, each
\* emitted request is tracked in pending_requests under the request id the
\* emitted message carries, and pending_requests has grown by the number of
\* requested types after the call.
C22_OneRequestPerType ==
    [][as_last'.op = "request_sync" =>
          /\ Len(as_last'.emitted) = Len(as_last'.types)
          /\ \A i \in 1..Len(as_last'.emitted) :
                as_last'.emitted[i].id \in DOMAIN pending_requests'
          /\ Cardinality(DOMAIN pending_requests')
                = Cardinality(DOMAIN pending_requests) + Len(as_last'.types)]_vars

\* the five wire strings of the AppState sync types
WireStrings ==
    {"regular", "critical_block", "critical_unblock_low", "regular_high",
     "regular_low"}

\* C23: for each of the five AppStateType values t,
\* from_string(t.into_string()) returns t; the wire strings are exactly
\* regular, critical_block, critical_unblock_low, regular_high and regular_low,
\* pairwise distinct; from_string of any other string returns an error.
C23_TypeStringRoundTrip ==
    /\ as_last.op = "into_string" =>
          /\ as_last.back = Some(as_last.arg)
          /\ as_last.ret \in WireStrings
          /\ \A t \in AppStateTypes \ {as_last.arg} : into_string(t) # as_last.ret
    /\ as_last.op = "from_string" =>
          /\ as_last.arg \in WireStrings
                => (as_last.ret # None /\ into_string(as_last.ret[1]) = as_last.arg)
          /\ as_last.arg \notin WireStrings => as_last.ret = None
    /\ {into_string(t) : t \in AppStateTypes} = WireStrings
    /\ Cardinality(WireStrings) = Cardinality(AppStateTypes)

C23_Witness ==
    /\ as_last.op = "into_string"
    /\ as_last.arg = "RegularHigh"
    /\ as_last.ret = "regular_high"
    /\ as_last.back = Some("RegularHigh")

\* whether a Conn message carries a secret that is not 144 bytes after base64
\* decoding, or whose HMAC does not verify
FailedSecret(msg) ==
    /\ msg.clientToken # None
    /\ msg.serverToken # None
    /\ msg.secret # None
    /\ \E decoded \in {base64_decode(msg.secret[1])} :
          /\ decoded.ok
          /\ \/ Len(decoded.val) # SecretLen
             \/ hmac_sha256(ZeroKey, SubSeq(decoded.val, 1, 32)
                                        \o SubSeq(decoded.val, 65, Len(decoded.val)))
                   # SubSeq(decoded.val, 33, 64)

\* C29: a failed key establishment leaves no partial result: when a Conn
\* message carries a secret that is not 144 bytes after base64 decoding or
\* whose HMAC does not verify, the session's enc_key and mac_key are left
\* unchanged, no Authenticated event is emitted, and the connection state does
\* not become Connected.
C29_FailedSecretLeavesNoKeys ==
    [][(cl_last'.op = "handle_json_message" /\ FailedSecret(cl_last'.msg)) =>
          /\ cl_last'.ret = "Err"
          /\ enc_key' = enc_key
          /\ mac_key' = mac_key
          /\ \/ event_queue' = event_queue
             \/ event_queue' = Append(event_queue, Event("Error", <<>>))
          /\ (connection_state' = "Connected" => connection_state = "Connected")]_vars

\* a Conn message with a secret of 144 bytes and a wrong HMAC has been handled
C29_Witness ==
    /\ cl_last.op = "handle_json_message"
    /\ FailedSecret(cl_last.msg)
    /\ Len(cl_last.msg.secret[1].bytes) = SecretLen
    /\ cl_last.ret = "Err"
    /\ server_token = "token"
    /\ connection_state = "Authenticating"

====
